---- MODULE Spec2Model ----
(***************************************************************************)
(* StateServiceHumanSimulator: the turn sequencer (start/stop lifecycle,   *)
(* paired and free-running schedules, processing and typing locks, the     *)
(* shutdown handshake) and the part of the edit applier its turns use.     *)
(*                                                                         *)
(* One step of the model is one run of JavaScript between two points at    *)
(* which the event loop can run something else: a timer firing, a network  *)
(* response arriving, or the continuation of an awaited call of the public *)
(* API (start, stop).  Timers and responses are environment events and may *)
(* arrive in any order.                                                    *)
(***************************************************************************)
EXTENDS Integers, Sequences, FiniteSets, TLC

\* ------------------------------------------------------------------------
\* Bounds of the model
\* ------------------------------------------------------------------------
MaxStarts == 2
MaxTurns == 2
MaxPairedTurns == 4
MaxStopTurns == 1
PairedStarts == 1
LiveStarts == 1
PeriodicStarts == 1
MaxPeriodicTurns == 3
MaxFaultTurns == 3
MaxFaults == 3
FarLine == 9
MaxEditTurns == 1
MaxStatsTurns == 1
MaxHanded == 1
SeedTimestep == 5
PriorRuns == 1
MaxTime == 1
MaxN == 1
MaxM == 2
MaxA == 2
MaxDelayK == 4
DelayStep == 300

\* An optional number of the configuration is <<>> when absent (undefined)
\* and <<v>> when it is the number v.
Undef == <<>>
Num(v) == <<v>>
Val(x) == x[1]

\* Numbers that may be fractions (probabilities, temperatures, Math.random())
\* are counted in units of 1 / Unit, so that One stands for the number 1.
Unit == 2
One == Unit

\* ------------------------------------------------------------------------
\* Program constants
\* ------------------------------------------------------------------------
DefaultMinActionDelayMs == 350
DefaultMaxActionDelayMs == 900
DefaultPostActionPauseMs == 1400
DefaultMinTypingDelayMs == 45
DefaultMaxTypingDelayMs == 130
DefaultMaxActions == 50
DefaultDurationMs == 300000
DefaultSequenceIntervalMs == 2500
DefaultNoiseTopK == 3
MaxNoiseTopK == 7
HANDSHAKE_TIMEOUT_MS == 2000

VARIABLES
    config, constructed,
    closeOnStop, maxAssistantActions, humanFollowUpActions,
    minActionDelayMs, maxActionDelayMs, postActionPauseMs,
    minTypingDelayMs, maxTypingDelayMs,
    assistantNoiseProbability, assistantNoiseTopK, assistantTemperature,
    assistantEpsilon,
    editor, isRunning, intervalId, startTime, isProcessing, isTyping,
    timestep, stats, humanActionsPerformed, assistantActionsPerformed,
    now, doc, cursor, runs, turns, hs, closeRequests, navigations, skipped,
    handed, api, app

cfgVars == <<config, constructed, closeOnStop, maxAssistantActions,
             humanFollowUpActions, minActionDelayMs, maxActionDelayMs,
             postActionPauseMs, minTypingDelayMs, maxTypingDelayMs,
             assistantNoiseProbability, assistantNoiseTopK,
             assistantTemperature, assistantEpsilon>>

simVars == <<editor, isRunning, intervalId, startTime, isProcessing, isTyping,
             timestep, stats, humanActionsPerformed, assistantActionsPerformed,
             now, doc, cursor, runs, turns, hs, closeRequests, navigations,
             skipped, handed>>

\* The episode-data endpoint's exchange in flight and the zero-style page.
webVars == <<api, app>>

vars == <<cfgVars, simVars, webVars>>

Max(a, b) == IF a >= b THEN a ELSE b
Min(a, b) == IF a <= b THEN a ELSE b

IsNumber(x) == x # Undef

\* NaN is a number for which no comparison holds; Val reads it as 0, which
\* agrees with it wherever the code tests x > 0 or i < x.
NaN == <<0, 0>>

\* No request has reached the episode-data endpoint; no page is open.
NoResponse ==
    [status |-> 0, problem_id |-> Undef, text |-> Undef, attribution |-> Undef]
NoExchange ==
    [state |-> "idle", file |-> Undef, episode |-> Undef, timestep |-> Undef,
     response |-> NoResponse]
NoPage ==
    [state |-> "closed",
     url |-> [episode |-> Undef, timestep |-> Undef, problemId |-> Undef,
              startingCode |-> Undef, attributionLog |-> Undef],
     file |-> Undef, branch |-> "none", problem |-> Undef, code |-> <<>>,
     attributionLog |-> Undef, initialTimestep |-> Undef, error |-> "none"]

\* Math.max(a, x) for a number a and an optional number x that is present.
MathMax(a, x) == IF x = NaN THEN NaN ELSE Num(Max(a, Val(x)))

\* ------------------------------------------------------------------------
\* The constructor
\* ------------------------------------------------------------------------

\* Field initialisers of the class (the values before the constructor body).
FieldDefaults ==
    [closeOnStop |-> FALSE,
     maxAssistantActions |-> Undef,
     humanFollowUpActions |-> 0,
     minActionDelayMs |-> DefaultMinActionDelayMs,
     maxActionDelayMs |-> DefaultMaxActionDelayMs,
     postActionPauseMs |-> DefaultPostActionPauseMs,
     minTypingDelayMs |-> DefaultMinTypingDelayMs,
     maxTypingDelayMs |-> DefaultMaxTypingDelayMs,
     assistantNoiseProbability |-> 0,
     assistantNoiseTopK |-> DefaultNoiseTopK,
     assistantTemperature |-> Undef,
     assistantEpsilon |-> Undef]

\* The turn-count part of the constructor.
CtorCounts(c, f) ==
    IF c.maxAssistantActions # Undef
    THEN [f EXCEPT !.maxAssistantActions = MathMax(0, c.maxAssistantActions),
                   !.humanFollowUpActions =
                       Max(1, IF c.humanFollowUpActions # Undef
                              THEN Val(c.humanFollowUpActions) ELSE 1)]
    ELSE IF c.humanFollowUpActions # Undef
    THEN [f EXCEPT !.humanFollowUpActions = Max(0, Val(c.humanFollowUpActions))]
    ELSE IF c.maxActions # Undef
    THEN [f EXCEPT !.humanFollowUpActions = Max(0, Val(c.maxActions))]
    ELSE f

\* The exploration part of the constructor.  The probability, the
\* temperature and epsilon are in units of 1 / Unit; the top-K of the
\* configuration is too, and Math.floor makes it a whole number.
CtorNoiseProbability(c, f) ==
    IF IsNumber(c.assistantNoiseProbability)
    THEN [f EXCEPT !.assistantNoiseProbability =
                       Min(Max(Val(c.assistantNoiseProbability), 0), One)]
    ELSE f

CtorNoiseTopK(c, f) ==
    IF IsNumber(c.assistantNoiseTopK)
    THEN LET candidate == Val(c.assistantNoiseTopK) \div Unit
         IN  IF candidate > 0
             THEN [f EXCEPT !.assistantNoiseTopK = Min(candidate, MaxNoiseTopK)]
             ELSE f
    ELSE f

CtorTemperature(c, f) ==
    IF IsNumber(c.assistantTemperature) /\ Val(c.assistantTemperature) > 0
    THEN [f EXCEPT !.assistantTemperature = c.assistantTemperature] ELSE f

CtorEpsilon(c, f) ==
    IF IsNumber(c.assistantEpsilon) /\ Val(c.assistantEpsilon) >= 0
    THEN [f EXCEPT !.assistantEpsilon = c.assistantEpsilon] ELSE f

CtorExploration(c, f) ==
    CtorEpsilon(c, CtorTemperature(c, CtorNoiseTopK(c,
        CtorNoiseProbability(c, f))))

\* The delay part of the constructor: each assignment sees the fields as the
\* previous assignments left them.
CtorMinAction(c, f) ==
    IF IsNumber(c.minActionDelayMs) /\ Val(c.minActionDelayMs) >= 0
    THEN [f EXCEPT !.minActionDelayMs = Val(c.minActionDelayMs)] ELSE f

CtorMaxAction(c, f) ==
    IF IsNumber(c.maxActionDelayMs) /\ Val(c.maxActionDelayMs) >= f.minActionDelayMs
    THEN [f EXCEPT !.maxActionDelayMs = Val(c.maxActionDelayMs)] ELSE f

CtorPause(c, f) ==
    IF IsNumber(c.postActionPauseMs) /\ Val(c.postActionPauseMs) >= 0
    THEN [f EXCEPT !.postActionPauseMs = Val(c.postActionPauseMs)] ELSE f

CtorMinTyping(c, f) ==
    IF IsNumber(c.minTypingDelayMs) /\ Val(c.minTypingDelayMs) >= 0
    THEN [f EXCEPT !.minTypingDelayMs = Val(c.minTypingDelayMs)] ELSE f

CtorMaxTyping(c, f) ==
    IF IsNumber(c.maxTypingDelayMs) /\ Val(c.maxTypingDelayMs) >= f.minTypingDelayMs
    THEN [f EXCEPT !.maxTypingDelayMs = Val(c.maxTypingDelayMs)] ELSE f

Constructor(c) ==
    LET f0 == [FieldDefaults EXCEPT !.closeOnStop = (c.closeOnStop = TRUE)]
        f1 == CtorExploration(c, CtorCounts(c, f0))
        f2 == CtorMinAction(c, f1)
        f3 == CtorMaxAction(c, f2)
        f4 == CtorPause(c, f3)
        f5 == CtorMinTyping(c, f4)
    IN  CtorMaxTyping(c, f5)

FieldsAre(f) ==
    /\ closeOnStop = f.closeOnStop
    /\ maxAssistantActions = f.maxAssistantActions
    /\ humanFollowUpActions = f.humanFollowUpActions
    /\ minActionDelayMs = f.minActionDelayMs
    /\ maxActionDelayMs = f.maxActionDelayMs
    /\ postActionPauseMs = f.postActionPauseMs
    /\ minTypingDelayMs = f.minTypingDelayMs
    /\ maxTypingDelayMs = f.maxTypingDelayMs
    /\ assistantNoiseProbability = f.assistantNoiseProbability
    /\ assistantNoiseTopK = f.assistantNoiseTopK
    /\ assistantTemperature = f.assistantTemperature
    /\ assistantEpsilon = f.assistantEpsilon

FieldsBecome(f) ==
    /\ closeOnStop' = f.closeOnStop
    /\ maxAssistantActions' = f.maxAssistantActions
    /\ humanFollowUpActions' = f.humanFollowUpActions
    /\ minActionDelayMs' = f.minActionDelayMs
    /\ maxActionDelayMs' = f.maxActionDelayMs
    /\ postActionPauseMs' = f.postActionPauseMs
    /\ minTypingDelayMs' = f.minTypingDelayMs
    /\ maxTypingDelayMs' = f.maxTypingDelayMs
    /\ assistantNoiseProbability' = f.assistantNoiseProbability
    /\ assistantNoiseTopK' = f.assistantNoiseTopK
    /\ assistantTemperature' = f.assistantTemperature
    /\ assistantEpsilon' = f.assistantEpsilon

\* ------------------------------------------------------------------------
\* The document and the cursor (the editor the simulator is bound to)
\* ------------------------------------------------------------------------
InitDoc == << <<"a">> >>

EndOfDocument(d) == [line |-> Len(d), col |-> Len(d[Len(d)]) + 1]

\* editor.setPosition: the editor keeps the cursor inside the document.
ClampPosition(d, p) ==
    LET l == Max(1, Min(p.line, Len(d)))
    IN  [line |-> l, col |-> Max(1, Min(p.col, Len(d[l]) + 1))]

\* editor.trigger('simulation', 'type', {text: ch}): one character typed at
\* the cursor; a newline splits the line.
TypeChar(S, ch) ==
    LET l == S.cursor.line
        c == S.cursor.col
        ln == S.doc[l]
        before == SubSeq(ln, 1, c - 1)
        after == SubSeq(ln, c, Len(ln))
    IN  IF ch = "\n"
        THEN [S EXCEPT
                !.doc = SubSeq(S.doc, 1, l - 1) \o <<before, after>>
                        \o SubSeq(S.doc, l + 1, Len(S.doc)),
                !.cursor = [line |-> l + 1, col |-> 1]]
        ELSE [S EXCEPT
                !.doc[l] = before \o <<ch>> \o after,
                !.cursor = [line |-> l, col |-> c + 1]]

\* ------------------------------------------------------------------------
\* The state of one simulator instance as a record, so that the code's
\* sequential statements compose as functions on it.
\* ------------------------------------------------------------------------
Cur ==
    [editor |-> editor, isRunning |-> isRunning, intervalId |-> intervalId,
     startTime |-> startTime, isProcessing |-> isProcessing,
     isTyping |-> isTyping, timestep |-> timestep, stats |-> stats,
     humanActionsPerformed |-> humanActionsPerformed,
     assistantActionsPerformed |-> assistantActionsPerformed,
     now |-> now, doc |-> doc, cursor |-> cursor, runs |-> runs,
     turns |-> turns, hs |-> hs, closeRequests |-> closeRequests,
     navigations |-> navigations, handed |-> handed, skipped |-> FALSE,
     faults |-> 0, rand |-> 0]

Becomes(S) ==
    /\ editor' = S.editor
    /\ isRunning' = S.isRunning
    /\ intervalId' = S.intervalId
    /\ startTime' = S.startTime
    /\ isProcessing' = S.isProcessing
    /\ isTyping' = S.isTyping
    /\ timestep' = S.timestep
    /\ stats' = S.stats
    /\ humanActionsPerformed' = S.humanActionsPerformed
    /\ assistantActionsPerformed' = S.assistantActionsPerformed
    /\ now' = S.now
    /\ doc' = S.doc
    /\ cursor' = S.cursor
    /\ runs' = S.runs
    /\ turns' = S.turns
    /\ hs' = S.hs
    /\ closeRequests' = S.closeRequests
    /\ navigations' = S.navigations
    /\ skipped' = S.skipped
    /\ handed' = S.handed
    /\ UNCHANGED <<cfgVars, webVars>>

\* ------------------------------------------------------------------------
\* Text helpers of the edit applier
\* ------------------------------------------------------------------------
IsSpace(ch) == ch \in {" ", "\n", "\t"}

RECURSIVE TrimStart(_)
TrimStart(t) ==
    IF t # <<>> /\ IsSpace(Head(t)) THEN TrimStart(Tail(t)) ELSE t

RECURSIVE TrimEnd(_)
TrimEnd(t) ==
    IF t # <<>> /\ IsSpace(t[Len(t)]) THEN TrimEnd(SubSeq(t, 1, Len(t) - 1))
    ELSE t

Trim(t) == TrimEnd(TrimStart(t))

\* responseText.replace(/\n/g, ' ')
NewlinesToSpaces(t) == [k \in DOMAIN t |-> IF t[k] = "\n" THEN " " ELSE t[k]]

\* getIndentation: the leading whitespace of a line.
getIndentation(line) == SubSeq(line, 1, Len(line) - Len(TrimStart(line)))

\* text.split('\n')
RECURSIVE SplitLines(_)
SplitLines(t) ==
    IF \A k \in DOMAIN t : t[k] # "\n" THEN <<t>>
    ELSE LET k == CHOOSE i \in DOMAIN t :
                     t[i] = "\n" /\ \A j \in 1..(i - 1) : t[j] # "\n"
         IN  <<SubSeq(t, 1, k - 1)>> \o SplitLines(SubSeq(t, k + 1, Len(t)))

\* lines.join('\n')
RECURSIVE JoinLines(_)
JoinLines(ls) ==
    IF Len(ls) = 1 THEN ls[1]
    ELSE ls[1] \o <<"\n">> \o JoinLines(Tail(ls))

\* Formatting that trims the first line and leaves the others as they came.
FormatLines_flat(responseText, indentation) ==
    LET lines == SplitLines(responseText)
    IN  JoinLines([k \in DOMAIN lines |->
                     IF k = 1 THEN Trim(lines[k]) ELSE lines[k]])

\* The text typed by REPLACE_AND_APPEND and EDIT_EXISTING_LINES: the first
\* line trimmed, the others behind the indentation of the replaced line.
FormatLines(responseText, indentation) ==
    LET lines == SplitLines(responseText)
    IN  JoinLines([k \in DOMAIN lines |->
                     IF k = 1 THEN Trim(lines[k])
                     ELSE indentation \o lines[k]])

\* Comment formatting without the closing newline.
FormatComment_noNewline(responseText, indentation) ==
    LET lines == SplitLines(responseText)
    IN  JoinLines([k \in DOMAIN lines |->
                     indentation \o <<"#", " ">> \o Trim(lines[k])])

\* The text typed by EXPLAIN_MULTI_LINE: one comment line per payload line.
FormatComment(responseText, indentation) ==
    LET lines == SplitLines(responseText)
    IN  JoinLines([k \in DOMAIN lines |->
                     indentation \o <<"#", " ">> \o Trim(lines[k])])
        \o <<"\n">>

\* ------------------------------------------------------------------------
\* stop(): the part that runs before stop() suspends on the handshake
\* ------------------------------------------------------------------------

\* What dispatching the zeroStyleSimulationStopping event does: it throws,
\* no listener answers during the dispatch, a listener calls resolve during
\* the dispatch, or a listener keeps resolve and may call it later.
DispatchOutcomes == {"throws", "silent", "ackNow", "ackLater"}

\* The completion promise of one stop(): pc is "waiting" until resolve() was
\* called, "resolved" until stop() resumes after `await completion`, then
\* "done"; timeout tells whether the 2000 ms timer is scheduled; listener
\* whether a listener still holds resolve; owner is the sequence that awaits
\* this stop() (0 when nobody awaits it).
Handshake(e, owner) ==
    [pc |-> IF e \in {"throws", "ackNow"} THEN "resolved" ELSE "waiting",
     timeout |-> (e # "throws"),
     listener |-> (e = "ackLater"),
     owner |-> owner]

\* clearInterval(id)
ClearInterval(rs, id) ==
    [r \in DOMAIN rs |-> IF r = id THEN [rs[r] EXCEPT !.active = FALSE]
                         ELSE rs[r]]

StopResetClearsTimer(S) ==
    IF S.intervalId # 0
    THEN [S EXCEPT !.runs = ClearInterval(@, S.intervalId), !.intervalId = 0]
    ELSE S

\* Date.now(): the clock is read, and reads tnow (not before the last reading).
DateNow(S, tnow) == [S EXCEPT !.now = tnow]

ClockReadings(S) == S.now..MaxTime

\* stop() without its early return.
stop_noGuard(S, e, owner, tnow) ==
    LET S1 == [S EXCEPT !.isRunning = FALSE, !.isProcessing = FALSE]
        S2 == DateNow(StopResetClearsTimer(S1), tnow)
        S3 == [S2 EXCEPT
                 !.stats.totalDurationMs = @ + (S2.now - S2.startTime),
                 !.stats.lastRunTime = Num(S2.now)]
    IN  [S3 EXCEPT !.hs = Append(@, Handshake(e, owner))]

\* stop() that leaves isRunning set.
stop_keepsRunning(S, e, owner, tnow) ==
    IF ~S.isRunning THEN S
    ELSE LET S1 == [S EXCEPT !.isProcessing = FALSE]
             S2 == DateNow(StopResetClearsTimer(S1), tnow)
             S3 == [S2 EXCEPT
                      !.stats.totalDurationMs = @ + (S2.now - S2.startTime),
                      !.stats.lastRunTime = Num(S2.now)]
         IN  [S3 EXCEPT !.hs = Append(@, Handshake(e, owner))]

stop(S, e, owner, tnow) ==
    IF ~S.isRunning THEN S
    ELSE LET S1 == [S EXCEPT !.isRunning = FALSE, !.isProcessing = FALSE]
             S2 == DateNow(StopResetClearsTimer(S1), tnow)
             S3 == [S2 EXCEPT
                      !.stats.totalDurationMs = @ + (S2.now - S2.startTime),
                      !.stats.lastRunTime = Num(S2.now)]
         IN  [S3 EXCEPT !.hs = Append(@, Handshake(e, owner))]

\* ------------------------------------------------------------------------
\* start(): the part that runs before start() suspends on the editor click
\* ------------------------------------------------------------------------
NewRun ==
    [pc |-> "click", i |-> 0, j |-> 0, log |-> <<>>, actionCount |-> 0,
     active |-> FALSE]

\* simulateEditorClick: the cursor goes after the last line.
simulateEditorClick(S) ==
    IF ~S.editor THEN S
    ELSE [S EXCEPT !.cursor = EndOfDocument(S.doc)]

\* start() without its early return.
start_noGuard(S, tnow) ==
    simulateEditorClick(
        [DateNow(S, tnow) EXCEPT
             !.isRunning = TRUE,
             !.startTime = tnow,
             !.stats.episodesCreated = @ + 1,
             !.runs = Append(@, NewRun)])

\* The objects getStats() has returned (handed) are each either the
\* statistics object itself (aliased) or an object of their own (obj).

\* getStats() that returns the statistics object itself.
getStats_returnsStats(S) ==
    [S EXCEPT !.handed = Append(@, [aliased |-> TRUE, obj |-> S.stats])]

\* getStats(): a copy of the statistics, whose fields are all numbers.
getStats(S) ==
    [S EXCEPT !.handed = Append(@, [aliased |-> FALSE, obj |-> S.stats])]

\* The caller assigns v to the field of the i-th object getStats() returned.
callerWrites(S, i, field, v) ==
    IF S.handed[i].aliased THEN [S EXCEPT !.stats[field] = v]
    ELSE [S EXCEPT !.handed[i].obj[field] = v]

\* setInitialTimestep(t0): the next turn index is t0 + 1.
setInitialTimestep(S, t0) == [S EXCEPT !.timestep = t0 + 1]

start(S, tnow) ==
    IF S.isRunning \/ ~S.editor THEN S
    ELSE simulateEditorClick(
            [DateNow(S, tnow) EXCEPT
                      !.isRunning = TRUE,
                      !.startTime = tnow,
                      !.stats.episodesCreated = @ + 1,
                      !.runs = Append(@, NewRun)])

\* ------------------------------------------------------------------------
\* executeAction and the two turn generators, up to their first suspension
\* ------------------------------------------------------------------------
NoPosition == [line |-> 0, col |-> 0]

\* The exploration fields of a request's context: all absent.
NoExploration ==
    [assistantStrategyOverride |-> "none", assistantTopK |-> Undef,
     assistantTemperature |-> Undef, assistantEpsilon |-> Undef]

\* A turn: its generator's position (pc), the turn index it sent (ts), the
\* exploration fields of the request it sent (req), the run whose schedule
\* called it (owner), the cursor position it read before the request (pos),
\* and the text its typing operation (op) has yet to type.
NewTurn(kind, owner) ==
    [kind |-> kind, pc |-> "delay", ts |-> -1, owner |-> owner,
     pos |-> NoPosition, text |-> <<>>, op |-> "none", threw |-> FALSE,
     req |-> NoExploration]

\* executeAction with the lock test inside the try block, so that the finally
\* block releases the lock of the turn in flight when a turn is dropped.
executeAction_dropReleases(S, kind, owner) ==
    IF ~S.editor THEN [st |-> S, returned |-> TRUE]
    ELSE IF S.isProcessing
    THEN [st |-> [S EXCEPT !.stats.totalActions = @ + 1,
                           !.isProcessing = FALSE, !.skipped = TRUE],
          returned |-> TRUE]
    ELSE [st |-> [S EXCEPT !.isProcessing = TRUE,
                           !.turns = Append(@, NewTurn(kind, owner))],
          returned |-> FALSE]

\* The result tells whether executeAction has already returned (the editor is
\* unbound, or the turn was dropped because the processing lock is held) or
\* has begun a turn that now holds the lock.
executeAction(S, kind, owner) ==
    IF ~S.editor THEN [st |-> S, returned |-> TRUE]
    ELSE IF S.isProcessing
    THEN [st |-> [S EXCEPT !.stats.totalActions = @ + 1, !.skipped = TRUE],
          returned |-> TRUE]
    ELSE [st |-> [S EXCEPT !.isProcessing = TRUE,
                           !.turns = Append(@, NewTurn(kind, owner))],
          returned |-> FALSE]

\* ------------------------------------------------------------------------
\* A turn after its first suspension
\* ------------------------------------------------------------------------

\* The finally block of a turn generator: the processing lock is released and
\* the turn waits for the post-action pause.
\* A finally block that does not release the processing lock.
Finish_keepsLock(S, t) ==
    [S EXCEPT !.turns[t].pc = "pause",
              !.turns[t].pos = NoPosition,
              !.turns[t].text = <<>>,
              !.turns[t].op = "none"]

Finish(S, t) ==
    [S EXCEPT !.isProcessing = FALSE,
              !.turns[t].pc = "pause",
              !.turns[t].pos = NoPosition,
              !.turns[t].text = <<>>,
              !.turns[t].op = "none"]

\* An exception leaves the turn generator: its finally block runs, and the
\* exception reaches the caller of executeAction after the post-action pause.
Escapes(S, t) == Finish([S EXCEPT !.turns[t].threw = TRUE], t)

\* The editor calls that change the document (executeEdits, trigger) throw
\* while editor faults remain for the step being taken.
EditorThrows(S) == S.faults > 0

EditorThrew(S) == [S EXCEPT !.faults = @ - 1]

moveCursorToEndOfFile(S) ==
    IF ~S.editor THEN S
    ELSE [S EXCEPT !.cursor = EndOfDocument(S.doc)]

\* The typing operations applyAction starts in its switch.
ApplyOps == {"fill", "replace", "edit", "comment", "commentAt", "raw"}

\* The finally block around a typing operation, then the end of the turn.
AfterTyping(S, t) ==
    Finish([S EXCEPT !.isTyping = FALSE], t)

\* A typing operation that leaves the cursor where the typing ended.
Completed_staysPut(S, t, op) == AfterTyping(S, t)

\* A typing operation ends normally: the two operations with an explicit
\* target line put the cursor back at the end of the document.
Completed(S, t, op) ==
    AfterTyping(IF op \in {"edit", "commentAt"} THEN moveCursorToEndOfFile(S)
                ELSE S, t)

RECURSIVE simulateTypingWithDelay(_, _, _, _)
RECURSIVE Thrown(_, _, _)
RECURSIVE RecoverNewline(_, _)
RECURSIVE TurnCatch(_, _)

\* simulateTypingWithDelay up to its first suspension: nothing is typed when
\* the editor is unbound or the text is empty, else the first character is
\* typed and the operation waits for the typing delay.
simulateTypingWithDelay(S, t, text, op) ==
    IF ~S.editor \/ text = <<>> THEN Completed(S, t, op)
    ELSE IF EditorThrows(S) THEN Thrown(EditorThrew(S), t, op)
    ELSE [TypeChar(S, Head(text)) EXCEPT !.turns[t].pc = "typing",
                                        !.turns[t].text = Tail(text),
                                        !.turns[t].op = op]

\* An exception that leaves the typing lock held.
Thrown_keepsLock(S, t, op) ==
    IF op \in ApplyOps THEN RecoverNewline(S, t)
    ELSE IF op = "catchFallback" THEN Escapes(S, t)
    ELSE TurnCatch(S, t)

\* An exception inside typing operation op: its finally block releases the
\* typing lock, then the nearest catch block runs: the one of applyAction for
\* the operations of its switch, the one of the turn generator for the
\* fallback of applyAction and for the fallback of a response without action,
\* none for the fallback inside the generator's own catch block.
Thrown(S, t, op) ==
    LET S1 == [S EXCEPT !.isTyping = FALSE]
    IN  IF op \in ApplyOps THEN RecoverNewline(S1, t)
        ELSE IF op = "catchFallback" THEN Escapes(S1, t)
        ELSE TurnCatch(S1, t)

\* The catch block of applyAction: one newline, unless the typing lock is
\* held.
RecoverNewline(S, t) ==
    IF S.isTyping THEN Finish(S, t)
    ELSE simulateTypingWithDelay([S EXCEPT !.isTyping = TRUE], t,
                                 <<"\n">>, "recover")

\* A catch block that gives the run up: it stops the sequencer.
TurnCatch_aborts(S, t) ==
    Finish(stop(S, "silent", 0, S.now), t)

\* The catch block of a turn generator: a human turn types one newline unless
\* the typing lock is held, an assistant turn logs the error.
TurnCatch(S, t) ==
    IF S.turns[t].kind # "human" \/ S.isTyping THEN Finish(S, t)
    ELSE simulateTypingWithDelay([S EXCEPT !.isTyping = TRUE], t,
                                 <<"\n">>, "catchFallback")

\* A fallback that types an empty line, i.e. two newlines.
FallbackNewline_twoNewlines(S, t) ==
    IF S.isTyping THEN Finish(S, t)
    ELSE simulateTypingWithDelay([S EXCEPT !.isTyping = TRUE], t,
                                 <<"\n", "\n">>, "fallback")

\* The fallback of a human turn whose response carries no action: one
\* newline, unless the typing lock is held.
FallbackNewline(S, t) ==
    IF S.isTyping THEN Finish(S, t)
    ELSE simulateTypingWithDelay([S EXCEPT !.isTyping = TRUE], t,
                                 <<"\n">>, "fallback")

\* Action 1, FILL_PARTIAL_LINE.
fillPartialLine(S, t, responseText, position) ==
    IF ~S.editor \/ S.isTyping THEN Finish(S, t)
    ELSE LET cleanText == Trim(NewlinesToSpaces(responseText))
             S1 == [S EXCEPT !.isTyping = TRUE,
                             !.cursor = ClampPosition(S.doc, position)]
         IN  simulateTypingWithDelay(S1, t, cleanText, "fill")

\* The line is cleared behind its indentation (executeEdits), the cursor is
\* put there and the formatted text is typed as operation op.
ClearAndType(S, t, responseText, line, op) ==
    LET S1 == [S EXCEPT !.isTyping = TRUE]
    IN  IF line \notin DOMAIN S.doc THEN Thrown(S1, t, op)
        ELSE IF EditorThrows(S1) THEN Thrown(EditorThrew(S1), t, op)
        ELSE LET indentation == getIndentation(S.doc[line])
                 S2 == [S1 EXCEPT
                          !.doc[line] = indentation,
                          !.cursor = [line |-> line,
                                      col |-> Len(indentation) + 1]]
             IN  simulateTypingWithDelay(
                     S2, t, FormatLines(responseText, indentation), op)

\* Actions 2 and 3, REPLACE_AND_APPEND.
replaceAndAppendLine(S, t, responseText, position) ==
    IF ~S.editor \/ S.isTyping THEN Finish(S, t)
    ELSE ClearAndType(S, t, responseText, position.line, "replace")

\* EDIT_EXISTING_LINES that clamps an out-of-bounds target line into the
\* document.
editExistingLines_clampsTarget(S, t, responseText, targetLine) ==
    IF ~S.editor \/ S.isTyping THEN Finish(S, t)
    ELSE ClearAndType(S, t, responseText,
                      Max(1, Min(targetLine, Len(S.doc))), "edit")

\* Action 4, EDIT_EXISTING_LINES.
editExistingLines(S, t, responseText, targetLine) ==
    IF ~S.editor \/ S.isTyping THEN Finish(S, t)
    ELSE IF targetLine < 1 \/ targetLine > Len(S.doc)
    THEN replaceAndAppendLine(S, t, responseText, S.cursor)
    ELSE ClearAndType(S, t, responseText, targetLine, "edit")

\* Action 5, EXPLAIN_SINGLE_LINES.
addInlineComment(S, t, responseText, position) ==
    IF ~S.editor \/ S.isTyping THEN Finish(S, t)
    ELSE LET S1 == [S EXCEPT !.isTyping = TRUE]
         IN  IF position.line \notin DOMAIN S.doc
             THEN Thrown(S1, t, "comment")
             ELSE LET currentLine == S.doc[position.line]
                      cleanComment == Trim(NewlinesToSpaces(responseText))
                      commentText ==
                          IF Trim(currentLine) = <<>>
                          THEN <<"#", " ">> \o cleanComment
                          ELSE <<" ", "#", " ">> \o cleanComment
                      S2 == [S1 EXCEPT
                               !.cursor = [line |-> position.line,
                                           col |-> Len(currentLine) + 1]]
                  IN  simulateTypingWithDelay(S2, t, commentText, "comment")

\* Action 6, EXPLAIN_MULTI_LINE.
addCommentAtLine(S, t, responseText, targetLine) ==
    IF ~S.editor \/ S.isTyping THEN Finish(S, t)
    ELSE IF targetLine < 1 \/ targetLine > Len(S.doc)
    THEN addInlineComment(S, t, responseText, S.cursor)
    ELSE LET indentation == getIndentation(S.doc[targetLine])
             S1 == [S EXCEPT !.isTyping = TRUE,
                             !.cursor = [line |-> targetLine, col |-> 1]]
         IN  simulateTypingWithDelay(
                 S1, t, FormatComment(responseText, indentation),
                 "commentAt")

\* A default arm that types whether or not the typing lock is held.
typeRawPayload_noLock(S, t, responseText) ==
    simulateTypingWithDelay([S EXCEPT !.isTyping = TRUE], t,
                            responseText, "raw")

\* The default arm of applyAction: the raw payload is typed, unless the
\* typing lock is held.
typeRawPayload(S, t, responseText) ==
    IF S.isTyping THEN Finish(S, t)
    ELSE simulateTypingWithDelay([S EXCEPT !.isTyping = TRUE], t,
                                 responseText, "raw")

applyAction(S, t, actionIndex, targetLine, responseText, position) ==
    IF ~S.editor THEN Finish(S, t)
    ELSE CASE actionIndex = 0 -> Finish(S, t)
           [] actionIndex = 1 -> fillPartialLine(S, t, responseText, position)
           [] actionIndex \in {2, 3} ->
                replaceAndAppendLine(S, t, responseText, position)
           [] actionIndex = 4 ->
                editExistingLines(S, t, responseText, targetLine)
           [] actionIndex = 5 ->
                addInlineComment(S, t, responseText, position)
           [] actionIndex = 6 ->
                addCommentAtLine(S, t, responseText, targetLine)
           [] OTHER -> typeRawPayload(S, t, responseText)

\* The humanlike delay is over: the turn reads the editor, takes the next
\* turn index and sends its inference request.  With the editor unbound the
\* read throws, which the turn catches (the human fallback then types
\* nothing, the editor being unbound).
\* The assistant's request carries the exploration fields; S.rand is the
\* value of Math.random(), in units of 1 / Unit.
shouldInjectAssistantNoise_atZero(S) == S.rand <= assistantNoiseProbability

shouldInjectAssistantNoise(S) ==
    assistantNoiseProbability > 0 /\ S.rand < assistantNoiseProbability

\* Exploration fields whose temperature and epsilon go with the override.
inferenceContext_noiseOnly(explorationEnabled) ==
    IF explorationEnabled
    THEN [assistantStrategyOverride |-> "sample_top_k",
          assistantTopK |-> Num(Max(1, Min(assistantNoiseTopK, MaxNoiseTopK))),
          assistantTemperature |-> assistantTemperature,
          assistantEpsilon |-> assistantEpsilon]
    ELSE NoExploration

inferenceContext(explorationEnabled) ==
    LET forwarded ==
            [NoExploration EXCEPT
               !.assistantTemperature =
                   IF assistantTemperature # Undef
                      /\ Val(assistantTemperature) > 0
                   THEN assistantTemperature ELSE Undef,
               !.assistantEpsilon =
                   IF assistantEpsilon # Undef /\ Val(assistantEpsilon) >= 0
                   THEN assistantEpsilon ELSE Undef]
    IN  IF explorationEnabled
        THEN [forwarded EXCEPT
                !.assistantStrategyOverride = "sample_top_k",
                !.assistantTopK =
                    Num(Max(1, Min(assistantNoiseTopK, MaxNoiseTopK)))]
        ELSE forwarded

\* A request that reads the turn index without advancing it.
AfterDelay_sameIndex(S, t) ==
    IF ~S.editor THEN Finish(S, t)
    ELSE [S EXCEPT !.turns[t].pc = "infer",
                   !.turns[t].ts = S.timestep,
                   !.turns[t].pos = S.cursor]

AfterDelay(S, t) ==
    IF ~S.editor THEN Finish(S, t)
    ELSE [S EXCEPT !.turns[t].pc = "infer",
                   !.turns[t].ts = S.timestep,
                   !.turns[t].pos = S.cursor,
                   !.turns[t].req =
                       IF S.turns[t].kind = "assistant"
                       THEN inferenceContext(shouldInjectAssistantNoise(S))
                       ELSE NoExploration,
                   !.timestep = @ + 1]

\* Responses of the inference service: the call throws, the response carries
\* no action, or it carries [actionIndex, targetLine] and a text.
NoAction(kind) ==
    [kind |-> kind, actionIndex |-> 0, targetLine |-> 0, text |-> <<>>]

Responses ==
    {NoAction("throws"), NoAction("none"),
     [kind |-> "action", actionIndex |-> 0, targetLine |-> 1, text |-> <<>>],
     [kind |-> "action", actionIndex |-> 1, targetLine |-> 1,
      text |-> <<"b">>]}

\* The faults of the inference boundary: the call throws, the response has
\* no action, its action index is unknown, its target line is out of bounds
\* (below the first line, beyond the last).
UnknownIndex == 7

FaultResponses ==
    {NoAction("throws"), NoAction("none"),
     [kind |-> "action", actionIndex |-> UnknownIndex, targetLine |-> 1,
      text |-> <<"b">>],
     [kind |-> "action", actionIndex |-> 4, targetLine |-> FarLine,
      text |-> <<"b">>],
     [kind |-> "action", actionIndex |-> 6, targetLine |-> 0,
      text |-> <<"b">>]}

\* Responses that leave the document alone but for the human fallback.
PlainResponses ==
    {NoAction("throws"),
     [kind |-> "action", actionIndex |-> 0, targetLine |-> 1, text |-> <<>>]}

\* The end of the inference call with the human fallback in both generators.
AfterInference_bothFallBack(S, t, resp) ==
    IF resp.kind = "action"
    THEN applyAction(S, t, resp.actionIndex, resp.targetLine, resp.text,
                     S.turns[t].pos)
    ELSE FallbackNewline(S, t)

AfterInference(S, t, resp) ==
    IF resp.kind = "action"
    THEN applyAction(S, t, resp.actionIndex, resp.targetLine, resp.text,
                     S.turns[t].pos)
    ELSE IF resp.kind = "throws" THEN TurnCatch(S, t)
    ELSE IF S.turns[t].kind = "human" THEN FallbackNewline(S, t)
    ELSE Finish(S, t)

\* One more character of a typing operation, or its end.  With the editor
\* unbound, or at fault, the next trigger throws.
AfterTypingDelay(S, t) ==
    LET text == S.turns[t].text
        op == S.turns[t].op
    IN  IF text = <<>> THEN Completed(S, t, op)
        ELSE IF ~S.editor THEN Thrown(S, t, op)
        ELSE IF EditorThrows(S) THEN Thrown(EditorThrew(S), t, op)
        ELSE [TypeChar(S, Head(text)) EXCEPT !.turns[t].text = Tail(text)]

\* The post-action pause is over: executeAction counts the action and returns
\* to its caller, the interval callback (which counts it too) or the sequence.
\* A turn that threw counts nothing: the exception rejects the promise of the
\* interval callback, or is caught by the sequence.
ReturnPc(pc) ==
    CASE pc = "h_turn" -> "h_ret"
      [] pc = "a_turn" -> "a_ret"
      [] pc = "f_turn" -> "f_ret"

AfterPause(S, t) ==
    LET o == S.turns[t].owner
        S0 == [S EXCEPT !.turns[t].pc = "done"]
        S1 == [S0 EXCEPT !.stats.totalActions = @ + 1]
    IN  IF S.turns[t].threw
        THEN IF S0.runs[o].pc = "timer" THEN S0
             ELSE [S0 EXCEPT !.runs[o].pc = "caught"]
        ELSE IF S1.runs[o].pc = "timer"
        THEN [S1 EXCEPT !.runs[o].actionCount = @ + 1]
        ELSE [S1 EXCEPT !.runs[o].pc = ReturnPc(@)]

\* ------------------------------------------------------------------------
\* The paired schedule (startZeroStyleSequence / runSequence)
\* ------------------------------------------------------------------------
SequenceIntervalMs ==
    IF config.intervalMs # Undef /\ Val(config.intervalMs) # 0
    THEN Val(config.intervalMs) ELSE DefaultSequenceIntervalMs

assistantLimit ==
    IF maxAssistantActions # Undef THEN Val(maxAssistantActions) ELSE 0

followUpHumans == Max(1, humanFollowUpActions)

\* A finally block of runSequence that never stops the sequencer.
Finally_noStop(S, r, e, tnow) ==
    [S EXCEPT !.runs[r].pc = "done"]

\* The finally block of runSequence.
Finally(S, r, e, tnow) ==
    IF S.isRunning THEN [stop(S, e, r, tnow) EXCEPT !.runs[r].pc = "stopping"]
    ELSE [S EXCEPT !.runs[r].pc = "done"]

\* One executeAction call of the sequence.
Attempt(S, r, kind, pcTurn, pcRet) ==
    LET x == executeAction(S, kind, r)
    IN  [x.st EXCEPT !.runs[r].log = Append(@, kind),
                     !.runs[r].pc = IF x.returned THEN pcRet ELSE pcTurn]

\* Head of the follow-up loop.
FollowHead(S, r, e, tnow) ==
    IF S.runs[r].j < followUpHumans /\ S.isRunning
    THEN Attempt(S, r, "human", "f_turn", "f_ret")
    ELSE Finally(S, r, e, tnow)

\* The pair loop with an off-by-one loop test.
LoopHead_offByOne(S, r, e, tnow) ==
    IF S.runs[r].i <= assistantLimit /\ S.isRunning
    THEN Attempt(S, r, "human", "h_turn", "h_ret")
    ELSE IF S.isRunning THEN FollowHead(S, r, e, tnow)
    ELSE Finally(S, r, e, tnow)

\* Head of the pair loop, and what follows the loop.
LoopHead(S, r, e, tnow) ==
    IF S.runs[r].i < assistantLimit /\ S.isRunning
    THEN Attempt(S, r, "human", "h_turn", "h_ret")
    ELSE IF S.isRunning THEN FollowHead(S, r, e, tnow)
    ELSE Finally(S, r, e, tnow)

\* The wait between the two turns of a pair without the test that follows it.
AfterWait1_noCheck(S, r, e, tnow) ==
    Attempt(S, r, "assistant", "a_turn", "a_ret")

AfterWait1(S, r, e, tnow) ==
    IF ~S.isRunning THEN Finally(S, r, e, tnow)
    ELSE Attempt(S, r, "assistant", "a_turn", "a_ret")

NextPair(S, r, e, tnow) == LoopHead([S EXCEPT !.runs[r].i = @ + 1], r, e, tnow)

NextFollow(S, r, e, tnow) ==
    FollowHead([S EXCEPT !.runs[r].j = @ + 1], r, e, tnow)

AfterHuman(S, r, e, tnow) ==
    LET S1 == [S EXCEPT !.humanActionsPerformed = @ + 1]
    IN  IF ~S1.isRunning THEN Finally(S1, r, e, tnow)
        ELSE IF SequenceIntervalMs > 0 THEN [S1 EXCEPT !.runs[r].pc = "w1"]
        ELSE AfterWait1(S1, r, e, tnow)

AfterAssistant(S, r, e, tnow) ==
    LET S1 == [S EXCEPT !.assistantActionsPerformed = @ + 1]
    IN  IF ~S1.isRunning THEN Finally(S1, r, e, tnow)
        ELSE IF SequenceIntervalMs > 0
                /\ (S1.runs[r].i < assistantLimit - 1 \/ followUpHumans > 0)
        THEN [S1 EXCEPT !.runs[r].pc = "w2"]
        ELSE NextPair(S1, r, e, tnow)

AfterFollowUp(S, r, e, tnow) ==
    LET S1 == [S EXCEPT !.humanActionsPerformed = @ + 1]
    IN  IF ~S1.isRunning THEN Finally(S1, r, e, tnow)
        ELSE IF SequenceIntervalMs > 0 /\ S1.runs[r].j < followUpHumans - 1
        THEN [S1 EXCEPT !.runs[r].pc = "w3"]
        ELSE NextFollow(S1, r, e, tnow)

runSequence(S, r, e, tnow) ==
    LET pc == S.runs[r].pc
    IN  CASE pc = "h_ret" -> AfterHuman(S, r, e, tnow)
          [] pc = "w1" -> AfterWait1(S, r, e, tnow)
          [] pc = "a_ret" -> AfterAssistant(S, r, e, tnow)
          [] pc = "w2" -> NextPair(S, r, e, tnow)
          [] pc = "f_ret" -> AfterFollowUp(S, r, e, tnow)
          [] pc = "w3" -> NextFollow(S, r, e, tnow)
          [] pc = "caught" -> Finally(S, r, e, tnow)

\* ------------------------------------------------------------------------
\* The free-running schedule (startPeriodicHumanSimulation)
\* ------------------------------------------------------------------------
PeriodicMaxActions ==
    IF config.maxActions # Undef /\ Val(config.maxActions) # 0
    THEN Val(config.maxActions) ELSE DefaultMaxActions

PeriodicDuration ==
    IF config.durationMs # Undef /\ Val(config.durationMs) # 0
    THEN Val(config.durationMs) ELSE DefaultDurationMs

startPeriodicHumanSimulation(S, r) ==
    [S EXCEPT !.intervalId = r,
              !.runs[r].pc = "timer",
              !.runs[r].active = TRUE,
              !.runs[r].actionCount = 0]

\* One firing of the interval callback, up to its first suspension.
intervalCallback(S, r, e, tnow) ==
    IF ~S.isRunning \/ ~S.editor THEN stop(S, e, 0, tnow)
    ELSE IF S.runs[r].actionCount >= PeriodicMaxActions
            \/ tnow - S.startTime >= PeriodicDuration
    THEN stop(DateNow(S, tnow), e, 0, tnow)
    ELSE LET x == executeAction(DateNow(S, tnow), "human", r)
         IN  IF x.returned
             THEN [x.st EXCEPT !.runs[r].actionCount = @ + 1]
             ELSE x.st

\* start() resumes after the editor click and installs the schedule.
startResume(S, r, e, tnow) ==
    IF maxAssistantActions # Undef /\ Val(maxAssistantActions) > 0
    THEN LoopHead(S, r, e, tnow)
    ELSE startPeriodicHumanSimulation(S, r)

\* ------------------------------------------------------------------------
\* The shutdown handshake and the end of stop()
\* ------------------------------------------------------------------------
resolveAndClear(h) ==
    IF h.pc = "waiting" THEN [h EXCEPT !.pc = "resolved", !.timeout = FALSE]
    ELSE h

\* A timer callback that forgets to resolve.
fallback_noResolve(h) == [h EXCEPT !.timeout = FALSE]

\* The timer's callback.
fallback(h) == resolveAndClear([h EXCEPT !.timeout = FALSE])

\* The end of stop() without the closeOnStop test.
stopResume_alwaysCloses(S, s, closeThrows) ==
    LET o == S.hs[s].owner
        S1 == [S EXCEPT !.hs[s].pc = "done",
                        !.closeRequests = @ + 1,
                        !.navigations = IF closeThrows THEN @ + 1 ELSE @]
    IN  IF o # 0 THEN [S1 EXCEPT !.runs[o].pc = "done"] ELSE S1

\* stop() resumes after `await completion`.
stopResume(S, s, closeThrows) ==
    LET o == S.hs[s].owner
        S1 == [S EXCEPT !.hs[s].pc = "done"]
        S2 == IF closeOnStop
              THEN [S1 EXCEPT !.closeRequests = @ + 1,
                              !.navigations = IF closeThrows THEN @ + 1 ELSE @]
              ELSE S1
    IN  IF o # 0 THEN [S2 EXCEPT !.runs[o].pc = "done"] ELSE S2

\* ------------------------------------------------------------------------
\* Initial states
\* ------------------------------------------------------------------------
BaseConfig ==
    [closeOnStop |-> FALSE, maxAssistantActions |-> Undef,
     humanFollowUpActions |-> Undef, maxActions |-> Undef,
     intervalMs |-> Undef, durationMs |-> Undef,
     minActionDelayMs |-> Undef, maxActionDelayMs |-> Undef,
     postActionPauseMs |-> Undef, minTypingDelayMs |-> Undef,
     maxTypingDelayMs |-> Undef,
     assistantNoiseProbability |-> Undef, assistantNoiseTopK |-> Undef,
     assistantTemperature |-> Undef, assistantEpsilon |-> Undef]

OptUpTo(lo, hi) == {Undef} \cup {Num(k) : k \in lo..hi}

\* Paired-schedule configurations: an assistant limit and any follow-up count.
PairedConfigs ==
    {[BaseConfig EXCEPT !.closeOnStop = c, !.maxAssistantActions = Num(n),
                        !.humanFollowUpActions = m] :
        c \in BOOLEAN, n \in 1..MaxN, m \in OptUpTo(0, MaxM)}

\* Free-running configurations: an action limit and a duration cap.
PeriodicConfigs ==
    {[BaseConfig EXCEPT !.maxActions = Num(a), !.durationMs = Num(d)] :
        a \in 1..MaxA, d \in 1..(MaxTime + 1)}

\* One configuration of each schedule.
OnePaired(c) ==
    [BaseConfig EXCEPT !.closeOnStop = c, !.maxAssistantActions = Num(1)]

OnePeriodic(c) ==
    [BaseConfig EXCEPT !.closeOnStop = c, !.maxActions = Num(MaxA),
                       !.durationMs = Num(MaxTime)]

SimConfigs == {OnePaired(FALSE), OnePeriodic(FALSE)}

StopConfigs == {OnePaired(TRUE), OnePeriodic(FALSE)}

DelayValues == {Undef, Num(-1)} \cup {Num(k * DelayStep) : k \in 0..MaxDelayK}

CtorConfigs ==
    {[BaseConfig EXCEPT !.minActionDelayMs = a, !.maxActionDelayMs = b,
                        !.minTypingDelayMs = c, !.maxTypingDelayMs = d] :
        a \in DelayValues, b \in DelayValues,
        c \in DelayValues, d \in DelayValues}

InitSim ==
    /\ editor = FALSE
    /\ isRunning = FALSE
    /\ intervalId = 0
    /\ startTime = 0
    /\ isProcessing = FALSE
    /\ isTyping = FALSE
    /\ timestep = 0
    /\ stats = [totalActions |-> 0, totalDurationMs |-> 0,
                episodesCreated |-> 0, lastRunTime |-> Undef]
    /\ humanActionsPerformed = 0
    /\ assistantActionsPerformed = 0
    /\ now = 0
    /\ doc = InitDoc
    /\ cursor = [line |-> 1, col |-> 1]
    /\ runs = <<>>
    /\ turns = <<>>
    /\ hs = <<>>
    /\ closeRequests = 0
    /\ navigations = 0
    /\ skipped = FALSE
    /\ handed = <<>>
    /\ api = NoExchange
    /\ app = NoPage

\* A constructed simulator, its configuration drawn from C.
InitOf(C) ==
    /\ config \in C
    /\ constructed = TRUE
    /\ FieldsAre(Constructor(config))
    /\ InitSim

Init == InitOf(SimConfigs)

InitPaired == InitOf(PairedConfigs)

InitStop == InitOf(StopConfigs)

InitPeriodic == InitOf(PeriodicConfigs)

\* An object whose constructor body has not run yet.
InitCtor ==
    /\ config \in CtorConfigs
    /\ constructed = FALSE
    /\ FieldsAre(FieldDefaults)
    /\ InitSim

\* ------------------------------------------------------------------------
\* Actions
\* ------------------------------------------------------------------------
\* Actions that can begin a turn take maxTurns, the number of turns a
\* behaviour may begin; Start takes maxStarts, the number of runs it may start.
WithinBounds(S, maxTurns) == Len(S.turns) <= maxTurns

Construct ==
    /\ ~constructed
    /\ constructed' = TRUE
    /\ FieldsBecome(Constructor(config))
    /\ UNCHANGED <<config, simVars, webVars>>

SetEditor(b) ==
    /\ editor # b
    /\ Becomes([Cur EXCEPT !.editor = b])

Start(tnow, maxStarts) ==
    /\ stats.episodesCreated < maxStarts
    /\ tnow \in ClockReadings(Cur)
    /\ Becomes(start(Cur, tnow))

Stop(e, tnow) ==
    /\ tnow \in ClockReadings(Cur)
    /\ Becomes(stop(Cur, e, 0, tnow))

StartResume(r, e, tnow, maxTurns) ==
    /\ runs[r].pc = "click"
    /\ tnow \in ClockReadings(Cur)
    /\ LET S == startResume(Cur, r, e, tnow)
       IN  WithinBounds(S, maxTurns) /\ Becomes(S)

SequenceStep(r, e, tnow, maxTurns) ==
    /\ runs[r].pc \in {"h_ret", "w1", "a_ret", "w2", "f_ret", "w3", "caught"}
    /\ tnow \in ClockReadings(Cur)
    /\ LET S == runSequence(Cur, r, e, tnow)
       IN  WithinBounds(S, maxTurns) /\ Becomes(S)

IntervalTick(r, e, tnow, maxTurns) ==
    /\ runs[r].pc = "timer"
    /\ runs[r].active
    /\ tnow \in ClockReadings(Cur)
    /\ LET S == intervalCallback(Cur, r, e, tnow)
       IN  WithinBounds(S, maxTurns) /\ Becomes(S)

\* The values Math.random() can return, in units of 1 / Unit: 0 <= r < 1.
RandomDraws == 0..(One - 1)

HumanlikeDelayDone(t) ==
    /\ turns[t].pc = "delay"
    /\ \E r \in RandomDraws : Becomes(AfterDelay([Cur EXCEPT !.rand = r], t))

\* k is the number of editor calls that throw in the step.
InferenceReturns(t, resp, k) ==
    /\ turns[t].pc = "infer"
    /\ Becomes(AfterInference([Cur EXCEPT !.faults = k], t, resp))

TypingDelayDone(t, k) ==
    /\ turns[t].pc = "typing"
    /\ Becomes(AfterTypingDelay([Cur EXCEPT !.faults = k], t))

PostActionPauseDone(t) ==
    /\ turns[t].pc = "pause"
    /\ Becomes(AfterPause(Cur, t))

HandshakeAck(s) ==
    /\ hs[s].listener
    /\ Becomes([Cur EXCEPT !.hs[s] =
                  [resolveAndClear(@) EXCEPT !.listener = FALSE]])

HandshakeTimeout(s) ==
    /\ hs[s].timeout
    /\ Becomes([Cur EXCEPT !.hs[s] = fallback(@)])

StopResume(s, closeThrows) ==
    /\ hs[s].pc = "resolved"
    /\ Becomes(stopResume(Cur, s, closeThrows))

\* The steps of the turns, for an inference service that answers in R and an
\* editor of which up to F calls in a step throw.
TurnSteps(R, F) ==
    \/ \E t \in DOMAIN turns : HumanlikeDelayDone(t)
    \/ \E t \in DOMAIN turns, resp \in R, k \in F :
          InferenceReturns(t, resp, k)
    \/ \E t \in DOMAIN turns, k \in F : TypingDelayDone(t, k)
    \/ \E t \in DOMAIN turns : PostActionPauseDone(t)

\* The calls of the public API and the schedule steps, for dispatch outcomes
\* in E.
ApiSteps(E, maxStarts) ==
    \/ \E tnow \in 0..MaxTime : Start(tnow, maxStarts)
    \/ \E e \in E, tnow \in 0..MaxTime : Stop(e, tnow)

PairedSteps(E, maxTurns) ==
    \/ \E r \in DOMAIN runs, e \in E, tnow \in 0..MaxTime :
          StartResume(r, e, tnow, maxTurns)
    \/ \E r \in DOMAIN runs, e \in E, tnow \in 0..MaxTime :
          SequenceStep(r, e, tnow, maxTurns)

PeriodicSteps(E, maxTurns) ==
    \E r \in DOMAIN runs, e \in E, tnow \in 0..MaxTime :
        IntervalTick(r, e, tnow, maxTurns)

\* The sequencer under restarts: both schedules, stop() and start() at any
\* point; no listener answers the stopping event and window.close() succeeds.
Next ==
    \/ SetEditor(TRUE)
    \/ ApiSteps({"silent"}, MaxStarts)
    \/ PairedSteps({"silent"}, MaxTurns)
    \/ PeriodicSteps({"silent"}, MaxTurns)
    \/ TurnSteps(PlainResponses, {0})
    \/ \E s \in DOMAIN hs : HandshakeTimeout(s)
    \/ \E s \in DOMAIN hs : StopResume(s, FALSE)

Spec == Init /\ [][Next]_vars

\* One run of the paired schedule, for every assistant limit and follow-up
\* count, with an editor the host may unbind and bind again.
NextPaired ==
    \/ \E b \in BOOLEAN : SetEditor(b)
    \/ ApiSteps({"silent"}, PairedStarts)
    \/ PairedSteps({"silent"}, MaxPairedTurns)
    \/ TurnSteps(Responses, {0})
    \/ \E s \in DOMAIN hs : HandshakeTimeout(s)
    \/ \E s \in DOMAIN hs : StopResume(s, FALSE)

SpecPaired == InitPaired /\ [][NextPaired]_vars

\* The shutdown of both schedules under every outcome of the handshake and
\* of window.close().
NextStop ==
    \/ SetEditor(TRUE)
    \/ ApiSteps(DispatchOutcomes, MaxStarts)
    \/ PairedSteps(DispatchOutcomes, MaxStopTurns)
    \/ PeriodicSteps(DispatchOutcomes, MaxStopTurns)
    \/ TurnSteps(PlainResponses, {0})
    \/ \E s \in DOMAIN hs : HandshakeAck(s)
    \/ \E s \in DOMAIN hs : HandshakeTimeout(s)
    \/ \E s \in DOMAIN hs, closeThrows \in BOOLEAN : StopResume(s, closeThrows)

SpecStop == InitStop /\ [][NextStop]_vars

\* Timers that are scheduled fire, and a resolved promise resumes its awaiter.
StopFairness ==
    \A s \in 1..MaxStarts :
        /\ WF_vars(s \in DOMAIN hs /\ HandshakeTimeout(s))
        /\ WF_vars(s \in DOMAIN hs /\ \E ct \in BOOLEAN : StopResume(s, ct))

\* The same shutdown with the fairness that makes it end, for LiveStarts runs.
NextStopLive ==
    \/ SetEditor(TRUE)
    \/ ApiSteps(DispatchOutcomes, LiveStarts)
    \/ PairedSteps(DispatchOutcomes, MaxStopTurns)
    \/ PeriodicSteps(DispatchOutcomes, MaxStopTurns)
    \/ TurnSteps(PlainResponses, {0})
    \/ \E s \in DOMAIN hs : HandshakeAck(s)
    \/ \E s \in DOMAIN hs : HandshakeTimeout(s)
    \/ \E s \in DOMAIN hs, closeThrows \in BOOLEAN : StopResume(s, closeThrows)

SpecStopLive == InitStop /\ [][NextStopLive]_vars /\ StopFairness

\* One run of the free-running schedule, for every action limit and duration
\* cap and every timing of the ticks against the turns.
NextPeriodic ==
    \/ SetEditor(TRUE)
    \/ ApiSteps({"silent"}, PeriodicStarts)
    \/ \E r \in DOMAIN runs, tnow \in 0..MaxTime :
          StartResume(r, "silent", tnow, MaxPeriodicTurns)
    \/ PeriodicSteps({"silent"}, MaxPeriodicTurns)
    \/ TurnSteps(PlainResponses, {0})
    \/ \E s \in DOMAIN hs : HandshakeTimeout(s)
    \/ \E s \in DOMAIN hs : StopResume(s, FALSE)

SpecPeriodic == InitPeriodic /\ [][NextPeriodic]_vars

\* The paired schedule under faults, with the fairness that makes it end: a
\* timer that is scheduled fires, an inference call returns or fails, and a
\* settled promise resumes its awaiter.  A run of the configuration checked
\* begins at most TurnsPerRun turns.
TurnsPerRun == 2 * Val(OnePaired(FALSE).maxAssistantActions) + 1

LiveTurns == TurnsPerRun * LiveStarts

TurnStep(t, R, F) ==
    \/ HumanlikeDelayDone(t)
    \/ \E resp \in R, k \in F : InferenceReturns(t, resp, k)
    \/ \E k \in F : TypingDelayDone(t, k)
    \/ PostActionPauseDone(t)

RunStep(r, maxTurns) ==
    \E tnow \in 0..MaxTime :
        \/ StartResume(r, "silent", tnow, maxTurns)
        \/ SequenceStep(r, "silent", tnow, maxTurns)

PairedFairness ==
    /\ \A t \in 1..(LiveTurns + 1) :
           WF_vars(t \in DOMAIN turns /\ TurnStep(t, PlainResponses, {0, 1}))
    /\ \A r \in 1..LiveStarts :
           WF_vars(r \in DOMAIN runs /\ RunStep(r, LiveTurns))
    /\ \A s \in 1..LiveStarts :
           /\ WF_vars(s \in DOMAIN hs /\ HandshakeTimeout(s))
           /\ WF_vars(s \in DOMAIN hs /\ StopResume(s, FALSE))

NextPairedLive ==
    \/ SetEditor(TRUE)
    \/ ApiSteps({"silent"}, LiveStarts)
    \/ PairedSteps({"silent"}, LiveTurns)
    \/ TurnSteps(PlainResponses, {0, 1})
    \/ \E s \in DOMAIN hs : HandshakeTimeout(s)
    \/ \E s \in DOMAIN hs : StopResume(s, FALSE)

InitPairedLive == InitOf({OnePaired(FALSE)})

SpecPairedLive == InitPairedLive /\ [][NextPairedLive]_vars /\ PairedFairness

\* One run of either schedule under the faults of the inference boundary and
\* of the editor, up to the point where the run stops itself.  The host binds
\* the editor before the run and may unbind it at any time; nobody calls
\* stop(), so that every stop is the schedule's own.
NextFaults ==
    \/ runs = <<>> /\ SetEditor(TRUE)
    \/ SetEditor(FALSE)
    \/ \E tnow \in 0..MaxTime : Start(tnow, PairedStarts)
    \/ PairedSteps({"silent"}, MaxFaultTurns)
    \/ PeriodicSteps({"silent"}, MaxFaultTurns)
    \/ TurnSteps(FaultResponses, 0..MaxFaults)

SpecFaults == Init /\ [][NextFaults]_vars

\* The paired schedule under restarts and faults: stop() and start() at any
\* point, so that turns of two runs overlap, the faults of the inference
\* boundary, an editor that may throw once in a step and that the host binds
\* before the first run and may unbind at any time.  The clock stands still.
NextApply ==
    \/ runs = <<>> /\ SetEditor(TRUE)
    \/ SetEditor(FALSE)
    \/ Start(0, MaxStarts)
    \/ Stop("silent", 0)
    \/ \E r \in DOMAIN runs : StartResume(r, "silent", 0, MaxTurns)
    \/ \E r \in DOMAIN runs : SequenceStep(r, "silent", 0, MaxTurns)
    \/ TurnSteps(FaultResponses, {0, 1})

InitApply == InitOf({OnePaired(FALSE)})

SpecApply == InitApply /\ [][NextApply]_vars

\* The edit applier on documents of the host: the host loads a document into
\* the editor before the run, and its user may put the cursor anywhere while
\* no typing operation is in progress (the editor is not read-only).
ScenarioDoc == << <<"d", "e", "f", " ", "f", "(", ")", ":">>, <<" ", " ", " ", " ", "p", "a", "s", "s">>, <<>> >>

ScenarioPayload == <<"r", "e", "t", "u", "r", "n", " ", "1">>

EditDocs == {ScenarioDoc, << <<" ", "a">>, <<"c">> >>, << <<>> >>}

Positions(d) ==
    UNION {{[line |-> l, col |-> c] : c \in 1..(Len(d[l]) + 1)} : l \in DOMAIN d}

EditResponses ==
    {[kind |-> "action", actionIndex |-> 4, targetLine |-> 2,
      text |-> ScenarioPayload],
     [kind |-> "action", actionIndex |-> 4, targetLine |-> FarLine,
      text |-> <<"b">>],
     [kind |-> "action", actionIndex |-> 2, targetLine |-> 1,
      text |-> <<" ", "b", " ", "\n", "c">>],
     [kind |-> "action", actionIndex |-> 6, targetLine |-> 1,
      text |-> <<"b", "\n", " ", "c">>]}

DocumentLoaded(d) ==
    /\ editor
    /\ Becomes([Cur EXCEPT !.doc = d, !.cursor = [line |-> 1, col |-> 1]])

CursorMoved(p) ==
    /\ editor
    /\ \A t \in DOMAIN turns : turns[t].pc # "typing"
    /\ cursor # p
    /\ Becomes([Cur EXCEPT !.cursor = p])

NextEdit ==
    \/ SetEditor(TRUE)
    \/ \E d \in EditDocs : runs = <<>> /\ DocumentLoaded(d)
    \/ \E p \in Positions(doc) : CursorMoved(p)
    \/ Start(0, PairedStarts)
    \/ \E r \in DOMAIN runs : StartResume(r, "silent", 0, MaxEditTurns)
    \/ \E r \in DOMAIN runs : SequenceStep(r, "silent", 0, MaxEditTurns)
    \/ TurnSteps(EditResponses, {0})

SpecEdit == InitApply /\ [][NextEdit]_vars

\* The exploration settings: a paired run of one assistant turn and one
\* human turn under every kind of configured value (absent, below range, in
\* range, above range, fractional).
NoiseConfigs ==
    {[OnePaired(FALSE) EXCEPT
        !.assistantNoiseProbability = p, !.assistantNoiseTopK = k,
        !.assistantTemperature = x, !.assistantEpsilon = e] :
        p \in OptUpTo(-1, One + 1),
        k \in {Undef, Num(-Unit), Num(0), Num(One - 1), Num(2 * Unit + 1),
               Num(MaxNoiseTopK * Unit), Num((MaxNoiseTopK + 2) * Unit)},
        x \in OptUpTo(-1, 1), e \in OptUpTo(-1, 1)}

InitNoise == InitOf(NoiseConfigs)

NextNoise ==
    \/ SetEditor(TRUE)
    \/ Start(0, PairedStarts)
    \/ \E r \in DOMAIN runs : StartResume(r, "silent", 0, MaxTurns)
    \/ \E r \in DOMAIN runs : SequenceStep(r, "silent", 0, MaxTurns)
    \/ TurnSteps(PlainResponses, {0})

SpecNoise == InitNoise /\ [][NextNoise]_vars

\* Resuming: once PriorRuns runs have been started and the simulator is
\* stopped, the host seeds the turn index from a prior session, once, and
\* starts again.
SetInitialTimestep(t0) ==
    /\ Len(runs) = PriorRuns
    /\ ~isRunning
    /\ timestep <= t0
    /\ Becomes(setInitialTimestep(Cur, t0))

NextResume ==
    \/ SetEditor(TRUE)
    \/ Start(0, PriorRuns + 1)
    \/ Stop("silent", 0)
    \/ SetInitialTimestep(SeedTimestep)
    \/ \E r \in DOMAIN runs : StartResume(r, "silent", 0, MaxTurns)
    \/ \E r \in DOMAIN runs : SequenceStep(r, "silent", 0, MaxTurns)
    \/ TurnSteps(PlainResponses, {0})

SpecResume == Init /\ [][NextResume]_vars

\* The statistics: a paired run under a moving clock, restarts, and a
\* caller that reads the statistics and writes to what it was given.
StatsFields == {"totalActions", "totalDurationMs", "episodesCreated"}

GetStats ==
    /\ Len(handed) < MaxHanded
    /\ Becomes(getStats(Cur))

CallerWrites(i, field, v) ==
    /\ handed[i].aliased \/ handed[i].obj[field] # v
    /\ Becomes(callerWrites(Cur, i, field, v))

InitStats == InitOf({OnePaired(FALSE)})

NextStats ==
    \/ SetEditor(TRUE)
    \/ ApiSteps({"silent"}, MaxStarts)
    \/ PairedSteps({"silent"}, MaxStatsTurns)
    \/ TurnSteps(PlainResponses, {0})
    \/ \E s \in DOMAIN hs : HandshakeTimeout(s)
    \/ \E s \in DOMAIN hs : StopResume(s, FALSE)
    \/ GetStats
    \/ \E i \in DOMAIN handed, field \in StatsFields : CallerWrites(i, field, 0)

SpecStats == InitStats /\ [][NextStats]_vars

\* Configurations with every kind of value for the clamped fields: absent,
\* not a number, negative, zero, in range, above range.
RangeConfigs ==
    {[BaseConfig EXCEPT
        !.maxAssistantActions = n, !.humanFollowUpActions = m,
        !.maxActions = a, !.assistantNoiseProbability = p,
        !.assistantNoiseTopK = k, !.minActionDelayMs = d,
        !.postActionPauseMs = w] :
        n \in {NaN} \cup OptUpTo(-1, MaxN), m \in OptUpTo(-1, MaxM),
        a \in {Undef, Num(-1)}, p \in OptUpTo(-1, One + 1),
        k \in {Undef, Num(-Unit), Num((MaxNoiseTopK + 2) * Unit)},
        d \in {Undef, Num(-1)}, w \in {Undef, Num(-1), Num(0)}}

InitRanges ==
    /\ config \in RangeConfigs
    /\ constructed = FALSE
    /\ FieldsAre(FieldDefaults)
    /\ InitSim

SpecRanges == InitRanges /\ [][Construct]_vars

NextCtor == Construct

SpecCtor == InitCtor /\ [][NextCtor]_vars

\* ------------------------------------------------------------------------
\* Claims
\* ------------------------------------------------------------------------

\* A turn is in flight from the acquisition of the processing lock to the
\* finally block that ends the application of its response.
InFlight(t) == turns[t].pc \in {"delay", "infer", "typing"}

TurnsInFlight == {t \in DOMAIN turns : InFlight(t)}

\* C1: in every reachable state at most one turn is between acquiring the
\* processing lock and finishing the application of its response.
C1_MutualExclusion == Cardinality(TurnsInFlight) <= 1

\* The order of attempts of a paired run of n pairs and m follow-up turns.
Alternation(n, m) ==
    [k \in 1..(2 * n + m) |->
        IF k <= 2 * n /\ k % 2 = 0 THEN "assistant" ELSE "human"]

IsPrefix(a, b) == Len(a) <= Len(b) /\ a = SubSeq(b, 1, Len(a))

\* A run of the paired schedule that no stop() interrupted ends by stopping
\* itself, and then awaits its own stop().
SelfStopped(r) == \E s \in DOMAIN hs : hs[s].owner = r

ConfiguredN == Val(config.maxAssistantActions)

ConfiguredM ==
    IF config.humanFollowUpActions = Undef THEN 1
    ELSE Val(config.humanFollowUpActions)

C3_DelayRangesOrdered ==
    constructed => /\ maxActionDelayMs >= minActionDelayMs
                   /\ maxTypingDelayMs >= minTypingDelayMs

\* C4: a turn dropped because the processing lock is held does not increment
\* stats.totalActions.
C4_DroppedTurnNotCounted ==
    [][skipped' => stats'.totalActions = stats.totalActions]_vars

\* C5: a turn dropped because the processing lock is held issues no inference
\* request, consumes no turn index, and leaves the document, the cursor and
\* both locks as they were.
C5_DroppedTurnAppliesNothing ==
    [][skipped' => UNCHANGED <<turns, timestep, doc, cursor, isProcessing,
                               isTyping>>]_vars

C5_Witness == skipped /\ isProcessing /\ TurnsInFlight # {}

\* C6: stop() is idempotent: from every reachable state a second stop() right
\* after a stop() changes nothing, and a stop() on a sequencer that is not
\* running changes nothing.
C6_StopIdempotent ==
    \A e1 \in DispatchOutcomes, e2 \in DispatchOutcomes :
        \A t1 \in ClockReadings(Cur) :
            LET once == stop(Cur, e1, 0, t1)
            IN  /\ \A t2 \in ClockReadings(once) :
                       stop(once, e2, 0, t2) = once
                /\ ~isRunning => once = Cur

C6_Witness ==
    /\ ~isRunning
    /\ Len(hs) >= 1
    /\ now < MaxTime

\* C7: once stop() was invoked on a running sequencer and start() is not
\* invoked again, no schedule begins a turn: every step that begins a turn
\* is taken while the sequencer is running.
C7_NoTurnAfterStop ==
    [][Len(turns') > Len(turns) => isRunning]_vars

C7_Witness ==
    /\ ~isRunning
    /\ Len(hs) >= 1
    /\ \E r \in DOMAIN runs : runs[r].pc \in {"w1", "w2", "w3"}

\* C8: whenever the sequencer is not running, none of its periodic interval
\* timers is scheduled.
C8_NoTimerWhenStopped ==
    ~isRunning => \A r \in DOMAIN runs :
                      ~(runs[r].pc = "timer" /\ runs[r].active)

\* C9: every stop() invoked on a running sequencer eventually completes,
\* whatever the dispatch of the notification does.
C9_StopCompletes ==
    \A s \in 1..MaxStarts :
        (s \in DOMAIN hs) ~> (s \in DOMAIN hs /\ hs[s].pc = "done")

C9_Witness ==
    \E s \in DOMAIN hs : hs[s].pc = "done" /\ hs[s].listener

HandshakesDone == {s \in DOMAIN hs : hs[s].pc = "done"}

\* C10: termination of the host is requested only when closeOnStop is set,
\* only in the step in which a stop() resumes after its handshake completed,
\* and once for that stop(); the navigate-away fallback happens only in such
\* a step, and the stop() ends all the same.
C10_CloseAfterHandshake ==
    /\ [](closeRequests <= Cardinality(HandshakesDone))
    /\ [](navigations <= closeRequests)
    /\ [][closeRequests' # closeRequests =>
            /\ closeOnStop
            /\ closeRequests' = closeRequests + 1
            /\ \E s \in DOMAIN hs :
                  hs[s].pc = "resolved" /\ hs'[s].pc = "done"]_vars
    /\ [][navigations' # navigations =>
            /\ navigations' = navigations + 1
            /\ closeRequests' = closeRequests + 1]_vars

C10_Witness == closeRequests >= 1 /\ navigations >= 1

\* C11: start() on a sequencer that is running, or that has no editor bound,
\* changes nothing: the running flag, the start timestamp, the episode count,
\* the turn index and the schedules (timers and sequences) stay as they are.
C11_StartNoOp ==
    (isRunning \/ ~editor) =>
        \A tnow \in ClockReadings(Cur) : start(Cur, tnow) = Cur

C11_Witness ==
    /\ isRunning
    /\ intervalId # 0
    /\ timestep >= 1
    /\ now < MaxTime

\* The turns the schedule of run r has begun.
TurnsOf(r) == {t \in DOMAIN turns : turns[t].owner = r}

\* C12: the free-running schedule begins human turns only, at most maxActions
\* of them in one run, and none at a tick at which the run has begun
\* maxActions turns or has lasted durationMs.
C12_TurnsWithinLimits ==
    [][Len(turns') > Len(turns) =>
          LET t == Len(turns')
              r == turns'[t].owner
          IN  /\ turns'[t].kind = "human"
              /\ Cardinality(TurnsOf(r)) < PeriodicMaxActions
              /\ now' - startTime < PeriodicDuration]_vars

\* C13: a started paired run stops itself: when timers fire and inference
\* calls return or fail, a running sequencer eventually is not running and
\* has performed the stop, whether its turns were all attempted or an error
\* escaped a turn into the sequence loop.
C13_PairedRunStops ==
    isRunning ~> (~isRunning /\ hs # <<>> /\ stats.lastRunTime # Undef)

C13_Witness ==
    \E r \in DOMAIN runs :
        /\ SelfStopped(r)
        /\ \E t \in TurnsOf(r) : turns[t].threw
        /\ ~isRunning

\* The schedule of run r has used up its limits: the sequence has left both
\* of its loops by their tests, the interval callback has counted maxActions
\* actions or reads a clock that is durationMs past the start.
PairedExhausted(r) ==
    /\ runs'[r].i >= assistantLimit
    /\ runs'[r].j >= followUpHumans
    /\ runs[r].pc \in {"f_ret", "w3"}

PeriodicExhausted(r) ==
    \/ runs[r].actionCount >= PeriodicMaxActions
    \/ now' - startTime >= PeriodicDuration

\* The run whose schedule performs the stop of a step that leaves Running.
Stopper == IF hs'[Len(hs')].owner # 0 THEN hs'[Len(hs')].owner ELSE intervalId

\* C14 as claimed: no fault ends a run; without a call of stop(), the
\* sequencer leaves Running only when its schedule has used up its limits.
C14_OnlyLimitsEndARunAsClaimed ==
    [][(isRunning /\ ~isRunning') =>
          IF hs'[Len(hs')].owner # 0 THEN PairedExhausted(Stopper)
          ELSE intervalId # 0 /\ PeriodicExhausted(Stopper)]_vars

\* C14: without a call of stop(), the sequencer leaves Running only when its
\* schedule has used up its limits, when an exception escaped a human turn
\* into the sequence loop, or at a tick of the interval timer that finds the
\* editor unbound.
C14_OnlyLimitsEndARun ==
    [][(isRunning /\ ~isRunning') =>
          IF hs'[Len(hs')].owner # 0
          THEN \/ PairedExhausted(Stopper)
               \/ /\ runs[Stopper].pc = "caught"
                  /\ \E t \in TurnsOf(Stopper) :
                         turns[t].threw /\ turns[t].kind = "human"
          ELSE /\ intervalId # 0
               /\ PeriodicExhausted(Stopper) \/ ~editor]_vars

C14_Witness ==
    /\ ~isRunning
    /\ \E r \in DOMAIN runs :
           /\ SelfStopped(r)
           /\ runs[r].i >= assistantLimit /\ runs[r].j >= followUpHumans
           /\ \A t \in TurnsOf(r) : ~turns[t].threw
           /\ Cardinality(TurnsOf(r)) = MaxFaultTurns

\* The turns of one kind whose inference call is outstanding, and the two
\* faults of the call: it throws, its response carries no action.
Awaiting(kind) ==
    {t \in DOMAIN turns : turns[t].pc = "infer" /\ turns[t].kind = kind}

CallFaults == {NoAction("throws"), NoAction("none")}

\* The turn after the typing delay of the one character a fallback types.
TurnEnd(S, t) == IF S.turns[t].pc = "typing" THEN AfterTypingDelay(S, t) ELSE S

\* The processing lock is free and the turn is in its post-action pause.
Released(S, t) ==
    /\ S.turns[t].pc = "pause"
    /\ ~S.isProcessing

\* C15 as claimed: a human turn whose inference call throws, or whose
\* response carries no action, inserts exactly one newline at the cursor, does
\* not propagate the fault and releases the processing lock when it ends.
C15_HumanFallbackAsClaimed ==
    \A t \in Awaiting("human"), resp \in CallFaults :
        LET S1 == AfterInference(Cur, t, resp)
        IN  /\ S1.doc = TypeChar(Cur, "\n").doc
            /\ S1.cursor = TypeChar(Cur, "\n").cursor
            /\ S1.turns[t].text = <<>>
            /\ ~S1.turns[t].threw
            /\ Released(TurnEnd(S1, t), t)

\* C15: such a turn inserts exactly one newline at the cursor when the editor
\* is bound and the typing lock is free, and nothing otherwise; only an
\* editor exception in the fallback of the catch block leaves the turn, with
\* nothing typed; the processing lock is released when the turn ends.
C15_HumanFallback ==
    \A t \in Awaiting("human"), resp \in CallFaults, k \in {0, 1} :
        LET S1 == AfterInference([Cur EXCEPT !.faults = k], t, resp)
            types == editor /\ ~isTyping /\ ~S1.turns[t].threw
        IN  /\ S1.turns[t].threw <=>
                   (editor /\ ~isTyping /\ k = 1 /\ resp.kind = "throws")
            /\ S1.doc = IF types THEN TypeChar(Cur, "\n").doc ELSE doc
            /\ S1.cursor = IF types THEN TypeChar(Cur, "\n").cursor
                           ELSE cursor
            /\ S1.turns[t].text = <<>>
            /\ Released(TurnEnd(S1, t), t)
            /\ TurnEnd(S1, t).isTyping = isTyping

C15_Witness ==
    \E t \in DOMAIN turns :
        /\ turns[t].kind = "human"
        /\ turns[t].op \in {"fallback", "catchFallback"}
        /\ turns[t].pc = "typing"
        /\ turns[t].text = <<>>
        /\ Len(doc) = Len(InitDoc) + 1

\* C16: an assistant turn whose inference call throws, or whose response
\* carries no action, is skipped: the document and the cursor stay as they
\* are, nothing is propagated to the schedule, and the processing lock is
\* released when the turn ends.
C16_AssistantSkip ==
    \A t \in Awaiting("assistant"), resp \in CallFaults, k \in {0, 1} :
        LET S1 == AfterInference([Cur EXCEPT !.faults = k], t, resp)
        IN  /\ S1.doc = doc
            /\ S1.cursor = cursor
            /\ S1.isTyping = isTyping
            /\ ~S1.turns[t].threw
            /\ Released(S1, t)

C16_Witness ==
    \E t \in DOMAIN turns :
        /\ turns[t].kind = "assistant"
        /\ turns[t].pc = "pause"
        /\ turns[t].ts >= 1
        /\ editor
        /\ ~isTyping

\* The turns whose inference call is outstanding, and the turns with a typing
\* operation in progress.
AwaitingAny == Awaiting("human") \cup Awaiting("assistant")

Typing == {t \in DOMAIN turns : turns[t].pc = "typing"}

Action(actionIndex, targetLine, text) ==
    [kind |-> "action", actionIndex |-> actionIndex,
     targetLine |-> targetLine, text |-> text]

Payloads == {<<"b">>, <<" ", "b">>, <<"b", "\n", "c">>}

\* C17: a response whose action index is outside 0..6 types its raw payload
\* character by character at the cursor, whatever the state of the typing
\* lock: with the editor bound, the first character is in the document and
\* the rest of the payload is the typing operation's to type.
C17_UnknownIndexTypes ==
    \A t \in AwaitingAny, text \in Payloads, idx \in {-1, UnknownIndex} :
        editor =>
            LET S1 == AfterInference(Cur, t, Action(idx, 1, text))
            IN  /\ S1.doc = TypeChar(Cur, Head(text)).doc
                /\ S1.turns[t].pc = "typing"
                /\ S1.turns[t].text = Tail(text)

\* The target lines outside the document.
OutOfBounds == {-1, 0, Len(doc) + 1, Len(doc) + 5}

C19_TypingLockFollowsTyping == isTyping <=> Typing # {}

C19_Witness ==
    /\ ~isTyping
    /\ \E t \in DOMAIN turns : turns[t].threw
    /\ \E t \in DOMAIN turns : turns[t].pc = "pause" /\ turns[t].ts >= 1

\* C20: at most one typing operation is in progress, and a response that
\* arrives while the typing lock is held types no character.
C20_NoInterleavedTyping ==
    /\ Cardinality(Typing) <= 1
    /\ isTyping =>
           \A t \in AwaitingAny, k \in {0, 1},
              resp \in FaultResponses \cup
                        {Action(i, 1, <<"b">>) : i \in 1..UnknownIndex} :
               LET S1 == AfterInference([Cur EXCEPT !.faults = k], t, resp)
               IN  /\ S1.doc = doc
                   /\ S1.cursor = cursor
                   /\ S1.isTyping
                   /\ S1.turns[t].pc = "pause"

C20_Witness ==
    /\ isTyping
    /\ Typing # {}
    /\ AwaitingAny # {}
    /\ editor

\* A turn has begun to apply its response once its inference call is over,
\* and has finished when its generator reaches the post-action pause.
BegunApplying(t) ==
    turns[t].ts >= 0 /\ turns[t].pc \in {"typing", "pause", "done"}

FinishedApplying(t) == turns[t].ts >= 0 /\ turns[t].pc \in {"pause", "done"}

\* C21: turns are applied in the order of their turn indices: a turn has
\* begun to apply its response only if every turn that sent a smaller turn
\* index has finished applying its own.
C21_AppliedInIndexOrder ==
    \A t \in DOMAIN turns, u \in DOMAIN turns :
        (turns[t].ts >= 0 /\ turns[t].ts < turns[u].ts /\ BegunApplying(u))
            => FinishedApplying(t)

\* The state in which the typing operation of turn t, if one is in progress,
\* has typed all of its text and has ended.
RECURSIVE TypeOut(_, _)
TypeOut(S, t) ==
    IF S.turns[t].pc = "typing" THEN TypeOut(AfterTypingDelay(S, t), t)
    ELSE S

\* The application of a response by turn t, from the end of its inference
\* call to the end of its typing operation.
Applied(t, resp) == TypeOut(AfterInference(Cur, t, resp), t)

ScenarioResult == << <<"d", "e", "f", " ", "f", "(", ")", ":">>, <<" ", " ", " ", " ", "r", "e", "t", "u", "r", "n", " ", "1">>, <<>> >>

EditPayloads ==
    Payloads \cup {<<"b", " ">>, <<" ", "b", " ", "\n", " ", "c">>,
                   <<"\t", "b", "\n", "c", "\n", "d">>}

\* The document after REPLACE_AND_APPEND of text on line L of document d,
\* when the first payload line is typed as first.
Replaced(d, L, text, first) ==
    LET I == getIndentation(d[L])
        lines == SplitLines(text)
    IN  SubSeq(d, 1, L - 1)
            \o [k \in DOMAIN lines |->
                   IF k = 1 THEN I \o first ELSE I \o lines[k]]
            \o SubSeq(d, L + 1, Len(d))

\* The turns whose REPLACE_AND_APPEND would act on a line of the document.
Replacing ==
    {t \in AwaitingAny :
        editor /\ ~isTyping /\ turns[t].pos # NoPosition
        /\ turns[t].pos.line \in DOMAIN doc}

\* C23 as claimed: the first payload line loses its leading whitespace only.
C23_ReplaceKeepsIndentationAsClaimed ==
    \A t \in Replacing, text \in EditPayloads, a \in {2, 3} :
        Applied(t, Action(a, 0, text)).doc
            = Replaced(doc, turns[t].pos.line, text,
                       TrimStart(SplitLines(text)[1]))

\* C23: REPLACE_AND_APPEND on the cursor line L with indentation I leaves
\* line L as I followed by the first payload line with its leading and its
\* trailing whitespace removed, makes each further payload line a new line
\* of I followed by that payload line, and leaves every other line as it
\* was, in its order.
C23_ReplaceKeepsIndentation ==
    \A t \in Replacing, text \in EditPayloads, a \in {2, 3} :
        Applied(t, Action(a, 0, text)).doc
            = Replaced(doc, turns[t].pos.line, text,
                       Trim(SplitLines(text)[1]))

C23_Witness ==
    /\ doc = << <<" ", "b">>, <<" ", "c">>, <<"c">> >>
    /\ ~isTyping
    /\ \E t \in DOMAIN turns : turns[t].pc = "pause" /\ turns[t].ts >= 0

\* C24: when EDIT_EXISTING_LINES has finished typing its payload, whether its
\* target line is in bounds or out of bounds and redirected to the cursor,
\* the cursor is at the end of the document.
C24_CursorAtEndAfterEdit ==
    \A t \in AwaitingAny, text \in EditPayloads,
       target \in DOMAIN doc \cup OutOfBounds :
        (editor /\ ~isTyping)
            => LET S1 == Applied(t, Action(4, target, text))
               IN  S1.cursor = EndOfDocument(S1.doc)

Requested(kind) ==
    {t \in DOMAIN turns : turns[t].kind = kind /\ turns[t].ts >= 0}

\* The assistant turns about to build their request.
Building ==
    {t \in DOMAIN turns :
        turns[t].kind = "assistant" /\ turns[t].pc = "delay" /\ editor}

\* The values of the configuration the constructor accepts.
AcceptedTemperature ==
    IF IsNumber(config.assistantTemperature)
       /\ Val(config.assistantTemperature) > 0
    THEN config.assistantTemperature ELSE Undef

AcceptedEpsilon ==
    IF IsNumber(config.assistantEpsilon) /\ Val(config.assistantEpsilon) >= 0
    THEN config.assistantEpsilon ELSE Undef

\* C26: the temperature and epsilon of an assistant request do not depend on
\* the noise decision: whatever Math.random() returns, the request forwards
\* the same temperature and the same epsilon, and each is present exactly
\* when the configuration gave it an accepted value (which it then is).
C26_TemperatureEpsilonIndependent ==
    /\ \A t \in Building, r1 \in RandomDraws, r2 \in RandomDraws :
           LET q1 == AfterDelay([Cur EXCEPT !.rand = r1], t).turns[t].req
               q2 == AfterDelay([Cur EXCEPT !.rand = r2], t).turns[t].req
           IN  /\ q1.assistantTemperature = q2.assistantTemperature
               /\ q1.assistantEpsilon = q2.assistantEpsilon
    /\ \A t \in Requested("assistant") :
           /\ turns[t].req.assistantTemperature = AcceptedTemperature
           /\ turns[t].req.assistantEpsilon = AcceptedEpsilon

C26_Witness ==
    \E t \in Requested("assistant") :
        /\ 0 < assistantNoiseProbability /\ assistantNoiseProbability < One
        /\ turns[t].req.assistantStrategyOverride = "none"
        /\ turns[t].req.assistantTemperature = Num(1)
        /\ turns[t].req.assistantEpsilon = Num(0)

\* C27: only an assistant request carries the exploration override, and by
\* the configured noise probability alone: never when it is 0, always when
\* it is 1, and never on a human request; a carried top-K is in 1..7.
C27_OverrideByProbability ==
    /\ \A t \in Requested("human") : turns[t].req = NoExploration
    /\ \A t \in Requested("assistant") :
           LET q == turns[t].req
               carried == q.assistantStrategyOverride = "sample_top_k"
           IN  /\ q.assistantStrategyOverride \in {"none", "sample_top_k"}
               /\ config.assistantNoiseProbability = Num(0) => ~carried
               /\ config.assistantNoiseProbability = Num(One) => carried
               /\ carried <=> q.assistantTopK # Undef
               /\ carried => Val(q.assistantTopK) \in 1..MaxNoiseTopK

C27_Witness ==
    /\ config.assistantNoiseProbability = Num(One)
    /\ \E t \in Requested("assistant"), u \in Requested("human") :
           /\ turns[t].req.assistantStrategyOverride = "sample_top_k"
           /\ turns[t].req.assistantTopK = Num(MaxNoiseTopK)

\* The requests issued by the runs started after the turn index was seeded.
LaterRequests ==
    {t \in DOMAIN turns : turns[t].owner > PriorRuns /\ turns[t].ts >= 0}

\* C28: after setInitialTimestep(t0) the first inference request issued by a
\* run started later carries the turn index t0 + 1, and start() does not
\* reset the turn index.
C28_ResumeAtNextIndex ==
    /\ timestep > SeedTimestep =>
           \A t \in LaterRequests :
               (\A u \in LaterRequests : turns[t].ts <= turns[u].ts)
                   => turns[t].ts = SeedTimestep + 1
    /\ \A tnow \in ClockReadings(Cur) : start(Cur, tnow).timestep = timestep

\* The shutdown handshake of some stop() is still pending.
Stopping == \E s \in DOMAIN hs : hs[s].pc # "done"

\* C29: Running is entered only from Idle: a start() invoked while the
\* shutdown handshake of a stop() is still pending does not begin a run, and
\* each start() that begins a run adds exactly one to the episode count.
C29_RunningOnlyFromIdle ==
    [][(~isRunning /\ isRunning')
          => /\ ~Stopping
             /\ stats'.episodesCreated = stats.episodesCreated + 1]_vars

\* C30: the statistics only accumulate: totalActions, totalDurationMs and the
\* episode count never decrease (so start() and stop() never reset them),
\* and a write by a caller to an object getStats() returned leaves the
\* statistics of the sequencer as they are.
C30_StatsOnlyAccumulate ==
    [][/\ stats'.totalActions >= stats.totalActions
       /\ stats'.totalDurationMs >= stats.totalDurationMs
       /\ stats'.episodesCreated >= stats.episodesCreated
       /\ \A i \in DOMAIN handed, field \in StatsFields, v \in {0, 1} :
              callerWrites(Cur, i, field, v).stats = stats]_vars

C30_Witness ==
    /\ isRunning
    /\ stats.episodesCreated = MaxStarts
    /\ stats.totalDurationMs > 0
    /\ stats.totalActions > 0
    /\ \E i \in DOMAIN handed :
           /\ ~handed[i].aliased
           /\ handed[i].obj.lastRunTime # Undef
           /\ handed[i].obj.episodesCreated = 0

\* C31: after construction the clamped fields are in their valid ranges:
\* the assistant limit is at least 0, the follow-up count is at least 0 (at
\* least 1 when an assistant limit is configured), the noise probability is
\* within [0, 1], the noise top-K within 1..7, and every delay and pause is
\* at least 0.
C31_FieldsInRange ==
    constructed =>
        /\ maxAssistantActions # Undef =>
               maxAssistantActions # NaN /\ Val(maxAssistantActions) >= 0
        /\ humanFollowUpActions >= 0
        /\ config.maxAssistantActions # Undef => humanFollowUpActions >= 1
        /\ assistantNoiseProbability \in 0..One
        /\ assistantNoiseTopK \in 1..MaxNoiseTopK
        /\ minActionDelayMs >= 0 /\ maxActionDelayMs >= 0
        /\ postActionPauseMs >= 0
        /\ minTypingDelayMs >= 0 /\ maxTypingDelayMs >= 0

\* The attribution log: record(author, turnIndex, span) appends a span for
\* a turn whose application, from state S0 to state S1, put text into the
\* document.
Records(S0, S1) == S1.doc # S0.doc

\* The state after turn t has applied the response resp in state S.
ApplyIn(S, t, resp) == TypeOut(AfterInference(S, t, resp), t)

\* C32: the spans of the attribution log are strictly increasing in turn
\* index, the log gaining one span for each turn that is applied: when the
\* turn with the larger of two turn indices has been applied and recorded,
\* no span is recorded for the other one any more.
C32_SpansIncreaseInTurnIndex ==
    \A t \in AwaitingAny, u \in AwaitingAny, text \in Payloads :
        (turns[t].ts < turns[u].ts /\ editor /\ ~isTyping)
            => LET resp == Action(1, 1, text)
                   S1 == ApplyIn(Cur, u, resp)
                   S2 == ApplyIn(S1, t, resp)
               IN  ~(Records(Cur, S1) /\ Records(S1, S2))

\* The turn indices sent so far.
SentIndices == {turns[t].ts : t \in Requested("human") \cup Requested("assistant")}

\* C33: the turn indices sent in inference requests, human and assistant
\* together, are unique and consecutive, across stop()/start() cycles and
\* overlapping turns: the indices sent are exactly 0 .. timestep - 1, the
\* next request sends timestep, a turn dropped on the processing lock takes
\* no index, and a failed inference call takes none beyond its own.
C33_ConsecutiveIndices ==
    /\ SentIndices = 0..(timestep - 1)
    /\ \A t \in DOMAIN turns, u \in DOMAIN turns :
           (t # u /\ turns[t].ts >= 0) => turns[t].ts # turns[u].ts
    /\ \A t \in DOMAIN turns :
           (turns[t].pc = "delay" /\ editor)
               => LET S1 == AfterDelay(Cur, t)
                  IN  S1.turns[t].ts = timestep /\ S1.timestep = timestep + 1
    /\ \A kind \in {"human", "assistant"} :
           (editor /\ isProcessing)
               => LET S1 == executeAction(Cur, kind, 0).st
                  IN  S1.timestep = timestep /\ S1.turns = turns
    /\ \A t \in AwaitingAny :
           LET S1 == AfterInference(Cur, t, NoAction("throws"))
           IN  S1.timestep = timestep /\ S1.turns[t].ts = turns[t].ts

C33_Witness ==
    /\ stats.episodesCreated = MaxStarts
    /\ \E t \in AwaitingAny, u \in AwaitingAny :
           /\ turns[t].owner # turns[u].owner
           /\ turns[u].ts = turns[t].ts + 1

\* C34: at most one schedule driver is active: after stop() followed by
\* start() the schedule of the earlier run begins no further turn, so every
\* turn that is begun is begun by the schedule of the latest run.
C34_OneScheduleDriver ==
    [][\A t \in DOMAIN turns' :
          t \notin DOMAIN turns => turns'[t].owner = Len(runs)]_vars

\* The runs that have been begun and are over.
RunsOver == stats.episodesCreated - (IF isRunning THEN 1 ELSE 0)

\* C35: for every start() that begins a run, the elapsed time of the run is
\* added to totalDurationMs exactly once and the stopping event is broadcast
\* exactly once, whichever stop() calls (of a caller, of the interval tick,
\* of the sequence's completion) compete: there is one broadcast for each
\* run that is over, and the duration changes and the broadcast occurs only
\* in the step that ends the run, by the time elapsed since its start.
C35_StoppedExactlyOnce ==
    [][/\ Len(hs) = RunsOver
       /\ Len(hs') = RunsOver'
       /\ (isRunning /\ ~isRunning')
              => /\ Len(hs') = Len(hs) + 1
                 /\ stats'.totalDurationMs
                        = stats.totalDurationMs + (now' - startTime)
       /\ ~(isRunning /\ ~isRunning')
              => /\ Len(hs') = Len(hs)
                 /\ stats'.totalDurationMs = stats.totalDurationMs]_vars

C35_Witness ==
    /\ ~isRunning
    /\ stats.episodesCreated = MaxStarts
    /\ stats.totalDurationMs > 0
    /\ \E s \in DOMAIN hs, z \in DOMAIN hs :
           hs[s].owner = 0 /\ hs[z].owner # 0

\* The turns whose generator has not yet passed its finally block.
Unreturned == {t \in DOMAIN turns : turns[t].pc \notin {"pause", "done"}}

\* C36: whenever every turn that was begun has returned, the processing lock
\* is free: a turn releases it on every exit path (no model or cursor, a
\* failed inference call, a failure while applying, a failure of the
\* fallback typing).
C36_LockFreeWhenNoTurn == Unreturned = {} => ~isProcessing

C36_Witness ==
    /\ Unreturned = {}
    /\ ~isProcessing
    /\ \E t \in DOMAIN turns, u \in DOMAIN turns :
           /\ turns[t].threw
           /\ t < u
           /\ turns[u].ts >= 0


\* ------------------------------------------------------------------------
\* The episode-data endpoint (GET /api/episode-data)
\*
\* Strings are sequences of characters; a query parameter is Undef when
\* the URL does not carry it (searchParams.get returns null).  A line of
\* the episode file is blank, unparsable, or a JSON object whose fields
\* are optional.
\* ------------------------------------------------------------------------
MaxFileLines == 3

BlankLine ==
    [kind |-> "blank", problem_id |-> Undef, text |-> Undef,
     attribution |-> Undef]
JunkLine ==
    [kind |-> "junk", problem_id |-> Undef, text |-> Undef,
     attribution |-> Undef]
JsonLine(id, text, attribution) ==
    [kind |-> "json", problem_id |-> id, text |-> text,
     attribution |-> attribution]

EpisodeLines ==
    {BlankLine, JunkLine,
     JsonLine(Num(<<"p">>), Undef, Undef),
     JsonLine(Num(<<"p">>), Num(<<"h">>), Num(<<"s0">>)),
     JsonLine(Undef, Undef, Undef),
     JsonLine(Undef, Num(<<"a">>), Num(<<"s1">>)),
     JsonLine(Undef, Num(<<"b">>), Undef),
     JsonLine(Undef, Num(<<>>), Num(<<>>))}

\* The files of the episodes directory: absent (Undef), or their lines.
EpisodeFiles ==
    {Undef} \cup
    {Num(f) : f \in UNION {[1..n -> EpisodeLines] : n \in 0..MaxFileLines}}

EpisodeParams == {Undef, Num(<<>>), Num(<<"e">>)}
TimestepParams ==
    {Undef, Num(<<>>), Num(<<"0">>), Num(<<"1">>), Num(<<"2">>),
     Num(<<"3">>), Num(<<"-", "1">>), Num(<<"-", "2">>), Num(<<"x">>),
     Num(<<"1", "x">>), Num(<<" ", "2">>)}

\* !param of a string | null: null and the empty string are falsy.
Missing(param) == param = Undef \/ Val(param) = <<>>

DigitValue(ch) ==
    CASE ch = "0" -> 0 [] ch = "1" -> 1 [] ch = "2" -> 2 [] ch = "3" -> 3
      [] ch = "4" -> 4 [] ch = "5" -> 5 [] ch = "6" -> 6 [] ch = "7" -> 7
      [] ch = "8" -> 8 [] ch = "9" -> 9
IsDigit(ch) == ch \in {"0", "1", "2", "3", "4", "5", "6", "7", "8", "9"}

\* The value of the leading decimal digits of t after acc, and whether
\* there was any digit.
RECURSIVE ParseDigits(_, _, _)
ParseDigits(t, acc, any) ==
    IF t # <<>> /\ IsDigit(Head(t))
    THEN ParseDigits(Tail(t), 10 * acc + DigitValue(Head(t)), TRUE)
    ELSE IF any THEN Num(acc) ELSE NaN

\* parseInt(s, 10): leading white space and one sign are skipped, the
\* digits that follow are read, anything after them is ignored.
parseInt(s) ==
    LET t == TrimStart(s)
        signed == t # <<>> /\ Head(t) \in {"-", "+"}
        n == ParseDigits(IF signed THEN Tail(t) ELSE t, 0, FALSE)
    IN  IF n = NaN THEN NaN
        ELSE IF signed /\ Head(t) = "-" THEN Num(0 - Val(n)) ELSE n

\* fileContent.split('\n').filter(line => line.trim())
NonBlank(line) == line.kind # "blank"
NonBlankLines(content) == SelectSeq(content, NonBlank)

ErrorResponse(status) == [NoResponse EXCEPT !.status = status]

\* timestepData.text || '' and timestepData.attribution || []
TextOf(line) == IF line.text = Undef THEN <<>> ELSE Val(line.text)
AttributionOf(line) ==
    IF line.attribution = Undef THEN <<>> ELSE Val(line.attribution)

\* A lookup that reads the line at the timestep itself.
LineIndex_sameAsTimestep(timestepNum) == timestepNum
LineIndex(timestepNum) == timestepNum + 1

\* Lines 26-91: the file is read and answered from.  lines[i] of the code
\* is lines[i + 1] here.
ReadEpisode(file, timestepNum) ==
    IF file = Undef THEN ErrorResponse(500)
    ELSE
    LET lines == NonBlankLines(Val(file))
        i == LineIndex(timestepNum)
    IN  IF Len(lines) = 0 THEN ErrorResponse(404)
        ELSE IF lines[1].kind = "junk" THEN ErrorResponse(500)
        ELSE IF Missing(lines[1].problem_id) THEN ErrorResponse(400)
        ELSE IF i >= Len(lines) THEN ErrorResponse(400)
        ELSE IF i < 0 \/ lines[i + 1].kind = "junk" THEN ErrorResponse(500)
        ELSE IF TextOf(lines[i + 1]) = <<>> THEN ErrorResponse(400)
        ELSE [status |-> 200, problem_id |-> lines[1].problem_id,
              text |-> Num(TextOf(lines[i + 1])),
              attribution |-> Num(AttributionOf(lines[i + 1]))]

\* Lines 4-23 validate the parameters; the outer catch answers 500.
GET(file, episode, ts) ==
    IF Missing(episode) \/ Missing(ts) THEN ErrorResponse(400)
    ELSE IF parseInt(Val(ts)) = NaN THEN ErrorResponse(400)
    ELSE ReadEpisode(file, Val(parseInt(Val(ts))))

WebStep == UNCHANGED <<cfgVars, simVars>>

\* A request reaches the endpoint while the directory holds the file.
Request ==
    /\ api.state = "idle"
    /\ \E file \in EpisodeFiles, episode \in EpisodeParams,
          ts \in TimestepParams :
           api' = [api EXCEPT !.state = "pending", !.file = file,
                              !.episode = episode, !.timestep = ts]
    /\ UNCHANGED app
    /\ WebStep

Respond ==
    /\ api.state = "pending"
    /\ api' = [api EXCEPT !.state = "done",
                          !.response = GET(api.file, api.episode,
                                           api.timestep)]
    /\ UNCHANGED app
    /\ WebStep

NextEpisode ==
    \/ Request
    \/ Respond

SpecEpisode == InitApply /\ [][NextEpisode]_vars


\* ------------------------------------------------------------------------
\* The zero-style page (ZeroStyleApp): its URL parameters and the effect
\* that loads the problem when the page opens.  The page fetches from the
\* episode-data endpoint, whose directory holds `file` for the episode.
\* ------------------------------------------------------------------------
PageLines ==
    {BlankLine,
     JsonLine(Num(<<"p">>), Undef, Undef),
     JsonLine(Num(<<"q">>), Num(<<"h">>), Num(<<"s0">>)),
     JsonLine(Undef, Num(<<"a">>), Num(<<"s1">>)),
     JsonLine(Undef, Num(<<"b">>), Undef)}
PageFiles ==
    {Undef} \cup
    {Num(f) : f \in UNION {[1..n -> PageLines] : n \in 0..MaxFileLines}}

PageUrls ==
    [episode : {Undef, Num(<<"e">>)},
     timestep : TimestepParams,
     problemId : {Undef, Num(<<"p">>), Num(<<"q">>)},
     startingCode : {Undef, Num(<<"c">>)},
     attributionLog : {Undef, Num(<<"u">>)}]

\* The problems getProblemById knows, and their starter code.
Problems == {<<"p">>}
StarterCode == <<"s">>

\* param || undefined, and param ? parseInt(param, 10) : undefined
getZeroStyleParams(url) ==
    [episode |-> IF Missing(url.episode) THEN Undef ELSE url.episode,
     timestep |-> IF Missing(url.timestep) THEN Undef
                  ELSE parseInt(Val(url.timestep)),
     problemId |-> IF Missing(url.problemId) THEN Undef ELSE url.problemId,
     startingCode |-> IF Missing(url.startingCode) THEN Undef
                      ELSE url.startingCode,
     attributionLog |-> url.attributionLog]

\* A number in a condition: undefined, NaN and 0 are falsy.
TruthyNumber(x) == x # Undef /\ x # NaN /\ Val(x) # 0

\* The decimal digits of n >= 0, and `${n}` of a number.
RECURSIVE Digits(_)
Digits(n) ==
    LET d == CHOOSE ch \in {"0", "1", "2", "3", "4", "5", "6", "7", "8", "9"} :
                 DigitValue(ch) = n % 10
    IN  IF n < 10 THEN <<d>> ELSE Append(Digits(n \div 10), d)
NumberToString(x) ==
    IF x = NaN THEN <<"N", "a", "N">>
    ELSE IF Val(x) < 0 THEN <<"-">> \o Digits(0 - Val(x))
    ELSE Digits(Val(x))

\* loadEpisodeData(episode, timestep): the fetch, then getProblemById.
loadEpisodeData(page, episode, ts) ==
    LET response == GET(page.file, episode, Num(NumberToString(ts)))
    IN  IF response.status # 200 THEN [page EXCEPT !.error = "load"]
        ELSE IF Val(response.problem_id) \notin Problems
        THEN [page EXCEPT !.error = "load"]
        ELSE [page EXCEPT !.problem = response.problem_id,
                          !.code = Val(response.text),
                          !.attributionLog = response.attribution,
                          !.initialTimestep = ts]

\* loadProblem(problemId) and the rest of the problemId branch.
loadProblem(page, params) ==
    IF Val(params.problemId) \notin Problems
    THEN [page EXCEPT !.error = "load"]
    ELSE [page EXCEPT
             !.problem = params.problemId,
             !.code = IF Missing(params.startingCode) THEN StarterCode
                      ELSE Val(params.startingCode),
             !.attributionLog = IF params.attributionLog # Undef
                                THEN params.attributionLog ELSE @]

\* setupProblem: which source the page sets up from.
setupProblem(page) ==
    LET params == getZeroStyleParams(page.url)
    IN  IF params.episode # Undef /\ TruthyNumber(params.timestep)
        THEN loadEpisodeData([page EXCEPT !.branch = "episode"],
                             params.episode, params.timestep)
        ELSE IF params.problemId # Undef
        THEN loadProblem([page EXCEPT !.branch = "problemId"], params)
        ELSE [page EXCEPT !.branch = "missing", !.error = "missing"]

\* The page is opened at a URL.
Open ==
    /\ app.state = "closed"
    /\ \E url \in PageUrls, file \in PageFiles :
           app' = [app EXCEPT !.state = "open", !.url = url, !.file = file]
    /\ UNCHANGED api
    /\ WebStep

\* The mount effect runs setupProblem to its end.
SetupProblem ==
    /\ app.state = "open"
    /\ app' = [setupProblem(app) EXCEPT !.state = "ready"]
    /\ UNCHANGED api
    /\ WebStep

NextPage ==
    \/ Open
    \/ SetupProblem

SpecPage == InitApply /\ [][NextPage]_vars

\* ------------------------------------------------------------------------
\* Claims about the episode-data endpoint
\* ------------------------------------------------------------------------
\* The request the endpoint has answered passed the parameter validation.
Validated ==
    /\ api.state = "done"
    /\ ~Missing(api.episode)
    /\ ~Missing(api.timestep)
    /\ parseInt(Val(api.timestep)) # NaN
RequestedTimestep == Val(parseInt(Val(api.timestep)))

\* The non-blank lines of the file the request was answered from.
FileLines == NonBlankLines(Val(api.file))

\* The file exists and its first non-blank line is a header: a JSON object
\* that carries a problem_id.
HasHeader ==
    /\ api.file # Undef
    /\ FileLines # <<>>
    /\ FileLines[1].kind = "json"
    /\ ~Missing(FileLines[1].problem_id)

\* The response built from line index i (counted from 0) of the file.
AnswerFrom(i) ==
    [status |-> 200, problem_id |-> FileLines[1].problem_id,
     text |-> FileLines[i + 1].text,
     attribution |-> Num(AttributionOf(FileLines[i + 1]))]

\* C37: for an episode file with a header, a request for timestep N >= 0 is
\* answered from line index N + 1 of the file's non-blank lines (the header
\* being index 0): when that line exists and carries a non-empty text, the
\* response has the header's problem_id and that line's text and
\* attribution; when N + 1 is at or past the number of non-blank lines the
\* response is a 400 error without episode data.
C37_TimestepMapsToNextLine ==
    (Validated /\ HasHeader /\ RequestedTimestep >= 0) =>
        LET i == RequestedTimestep + 1
        IN  /\ (/\ i < Len(FileLines)
                /\ FileLines[i + 1].kind = "json"
                /\ ~Missing(FileLines[i + 1].text))
                   => api.response = AnswerFrom(i)
            /\ i >= Len(FileLines) => api.response = ErrorResponse(400)

\* Timestep 0 was requested from a file with a blank line between the
\* header and the first timestep line, and the answer carries that line.
C37_Witness ==
    /\ Validated /\ HasHeader
    /\ RequestedTimestep = 0
    /\ Len(Val(api.file)) = 3
    /\ Val(api.file)[2].kind = "blank"
    /\ api.response.status = 200
    /\ api.response.text = Val(api.file)[3].text

\* C38: whatever timestep value passes the validation, negative ones
\* included, a success response takes its text and attribution from a
\* timestep line (line index >= 1), never from the header line, and every
\* other outcome is a 400, 404 or 500 error without text or attribution.
C38_NeverFromHeader ==
    Validated =>
        IF api.response.status = 200
        THEN /\ LineIndex(RequestedTimestep) >= 1
             /\ api.response = AnswerFrom(LineIndex(RequestedTimestep))
        ELSE /\ api.response.status \in {400, 404, 500}
             /\ api.response.text = Undef
             /\ api.response.attribution = Undef


\* ------------------------------------------------------------------------
\* Claims about the zero-style page
\* ------------------------------------------------------------------------
\* The page was opened at a URL with an episode and a timestep N >= 0, and
\* its setup has run.
SetUpFromEpisodeUrl ==
    /\ app.state = "ready"
    /\ ~Missing(app.url.episode)
    /\ ~Missing(app.url.timestep)
    /\ parseInt(Val(app.url.timestep)) # NaN
    /\ Val(parseInt(Val(app.url.timestep))) >= 0
UrlTimestep == parseInt(Val(app.url.timestep))

\* What the endpoint answers for the URL's episode and timestep.
EpisodeData == GET(app.file, app.url.episode, Num(NumberToString(UrlTimestep)))

\* C39: when the URL supplies an episode and a timestep N >= 0, 0 included,
\* the page sets up from the episode data: it takes the episode branch (not
\* the problemId branch, not the missing-parameters error) and, when the
\* episode data loads, its code, attribution log and initial timestep N
\* come from that episode.
C39_EpisodeUrlSetsUpFromEpisode ==
    SetUpFromEpisodeUrl =>
        /\ app.branch = "episode"
        /\ app.error # "missing"
        /\ (EpisodeData.status = 200 /\ Val(EpisodeData.problem_id) \in Problems)
               => /\ app.code = Val(EpisodeData.text)
                  /\ app.attributionLog = EpisodeData.attribution
                  /\ app.initialTimestep = UrlTimestep

====
